---- MODULE Spec2Model ----
(***************************************************************************)
(* Model of the nekkus-hub process supervisor (internal/process/manager.go) *)
(* together with the HTTP lifecycle handlers (internal/server/routes.go),   *)
(* the summary loop (internal/api/summary.go) and the manifest registry     *)
(* (internal/registry/registry.go).                                         *)
(*                                                                          *)
(* Spec and FairSpec are the supervisor under lifecycle requests,           *)
(* SummarySpec one summary request over a hub with started modules,         *)
(* RegistrySpec the registry under scan requests and directory changes,     *)
(* RouteSpec the HTTP routes of api.NewMux (internal/api/handlers.go) with  *)
(* their status codes, IntakeSpec the registry under uploads, scans and     *)
(* inbound Register calls, RpcSpec the inbound RPC surface, ResolveSpec      *)
(* resolveExecutablePath over the files on disk, LockSpec and LockFairSpec  *)
(* the calls of Manager and Registry as sequences of lock, unlock, table    *)
(* access and blocking steps over the two sync.RWMutex.                     *)
(*                                                                          *)
(* Outside LockSpec every region the code runs under Manager.mu is one      *)
(* atomic action; the steps between two such regions (readiness probe,      *)
(* grace sleep, waiting for process exit) are separate states other         *)
(* goroutines interleave with.                                              *)
(***************************************************************************)
EXTENDS Integers, FiniteSets, Sequences, TLC

\* ---- bounds of the model ------------------------------------------------
MaxCalls == 3        \* lifecycle requests issued in one behaviour
MaxCmds == 2         \* exec.Cmd objects (OS processes) spawned in one behaviour
MaxFairCalls == 2    \* lifecycle requests issued in one behaviour of FairSpec
MaxScans == 2        \* scan requests issued in one behaviour of RegistrySpec
MaxDirChanges == 1   \* changes made to the modules directory in one behaviour
MaxRequests == 2     \* HTTP requests received in one behaviour of RouteSpec
MaxRegs == 2         \* Register calls received in one behaviour of IntakeSpec
MaxLockCalls == 3    \* calls begun by the goroutines in one behaviour of LockSpec

Threads == {"h1", "h2"}      \* concurrent HTTP request handlers
ModuleIDs == {"m0", "m1"}    \* the manifests in the registry
Nil == 0

VARIABLES
    processes,   \* Manager.processes: module ID -> index of its *exec.Cmd, Nil if absent
    cmds,        \* every exec.Cmd created so far, in creation order
    pc,          \* per handler: position inside StartModule / StopModule
    op,          \* per handler: the request it serves (or served last)
    mid,         \* per handler: module ID of that request
    mine,        \* per handler: the cmd its StartModule created (Nil if none)
    result,      \* per handler: outcome of the last StartModule/StopModule return
    clean,       \* per handler, history: while in StartModule(mid), no StopModule(mid) has
                 \* overlapped it; in and after StopModule(mid), no StartModule(mid) has
                 \* overlapped or followed it
    startOk,     \* module IDs for which some StartModule has returned nil
    calls,       \* number of requests issued
    manifests,   \* Registry.manifests: module ID -> ModuleManifest (a Go map)
    dir,         \* the modules directory on disk
    scans,       \* per scan handler: the state of its ScanModules call
    scanCalls,   \* number of scan requests issued
    dirChanges,  \* number of changes made to the modules directory
    modules,     \* BuildModuleSummaries: the manifest list it was called with
    summaries,   \* BuildModuleSummaries: the slice it has built so far
    sumPc,       \* position of the summary handler
    sumI,        \* index of the loop of BuildModuleSummaries into modules
    fetched,     \* history: what the remote side answered to the last fetchWidgetData
    req,         \* per HTTP handler: the request it serves (or served last)
    registered,  \* Registry.registered: module ID -> registeredEntry (a Go map)
    regs,        \* history: the Register calls served so far, in the order of their writes
    rpc,         \* the inbound RPC served last: its method and its reply
    files,       \* the executable files that exist on disk, as paths
    resolved,    \* what the last resolveExecutablePath call was given and returned
    mu,          \* Manager.mu and Registry.mu: holder of the write lock, holders of the read lock
    prog,        \* per goroutine: the call it runs and the lock-relevant steps it has left
    lockCalls    \* number of calls the goroutines have begun

supVars == <<processes, cmds, pc, op, mid, mine, result, clean, startOk, calls>>

regVars == <<manifests, dir, scans, scanCalls, dirChanges>>

sumVars == <<modules, summaries, sumPc, sumI, fetched>>

resVars == <<files, resolved>>

lockVars == <<mu, prog, lockCalls>>

extVars == <<req, registered, regs, rpc, resVars, lockVars>>

vars == <<supVars, regVars, sumVars, extVars>>

\* ---- helpers ------------------------------------------------------------

\* manifest.ModuleManifest, reduced to the two fields the hub's logic reads
Manifest(id, addr) == [id |-> id, grpcAddr |-> addr]

\* ModuleManifest.GrpcAddr of the manifests in the registry: m0 was scanned from a
\* manifest.json without grpc_addr, the others listen on an address of their own.
GrpcAddr(id) == IF id = "m0" THEN "" ELSE id

\* cmd.ProcessState == nil || !cmd.ProcessState.Exited()
NonExited(c) == cmds[c].state = "nil" \/ cmds[c].state # "exited"

\* Manager.IsRunning
IsRunning(id) ==
    LET c == processes[id] IN
    IF c = Nil THEN FALSE ELSE NonExited(c)

\* a StartModule call of handler t is between its entry and its return
InStart(t) == pc[t] \in {"start_check", "start_spawn", "start_record", "start_probe"}

InStop(t) == pc[t] \in {"stop_check", "stop_kill"}

\* the OS process of cmd c has not terminated
Alive(c) == cmds[c].status = "running"

\* some live process accepts TCP connections on addr
Listening(addr) == \E c \in DOMAIN cmds : Alive(c) /\ cmds[c].listening /\ GrpcAddr(cmds[c].id) = addr

\* manifest.GrpcAddr of the manifest handler t passed to StartModule: the route looked
\* it up by ID in the registry, which is not rescanned while lifecycle requests run
ArgAddr(t) == manifests[mid[t]].grpcAddr

\* the live OS processes the supervisor has spawned for module id
LiveProcs(id) == {c \in DOMAIN cmds : cmds[c].id = id /\ Alive(c)}

\* os.Process.Kill on a live process: on Unix it dies by SIGKILL ("signaled", for which
\* ProcessState.Exited() is false), on Windows TerminateProcess gives it an exit code
\* ("exited"). A process that is already gone is left as it is.
KillOutcomes(c) ==
    IF Alive(c)
    THEN {[cmds EXCEPT ![c].status = st, ![c].listening = FALSE] : st \in {"signaled", "exited"}}
    ELSE {cmds}

\* manager.go 217-248 buildModuleEnv: the variables set in the environment of the
\* module process (the inherited ones and NEKKUS_HUB_ADDR left out)
buildModuleEnv(showUI, autoConnect) ==
    [NEKKUS_SHOW_UI      |-> IF showUI THEN "1" ELSE "0",
     NEKKUS_AUTO_CONNECT |-> IF autoConnect THEN "1" ELSE "0",
     NEKKUS_SINGBOX_LOG  |-> IF showUI THEN "file" ELSE "none"]

\* exec.Command + cmd.Start: status is the OS view of the process, state is
\* cmd.ProcessState (nil until cmd.Wait returns), waiter the exit-waiter goroutine
NewCmd(id) ==
    [id |-> id, status |-> "running", listening |-> FALSE, state |-> "nil", waiter |-> "none"]

\* ---- the registry and the modules directory ---------------------------------

Scanners == {"s1", "s2"}     \* concurrent handlers of POST /api/scan

\* the names the modules directory can hold, in the order os.ReadDir returns them
\* (sorted by filename)
DirOrder == <<"d1", "d2">>

Dirs == {DirOrder[i] : i \in DOMAIN DirOrder}

\* what a name of the modules directory can be: nothing, a regular file, a folder
\* without a readable manifest.json, a folder whose manifest.json is not valid JSON for
\* ModuleManifest, or a folder whose manifest.json unmarshals into a manifest (the ID of
\* which may be empty)
Entry(kind, id, addr) == [kind |-> kind, id |-> id, grpcAddr |-> addr]

Absent == Entry("absent", "", "")

Contents ==
    {Entry(k, "", "") : k \in {"absent", "file", "no_manifest", "bad_json", "json"}}
    \cup {Entry("json", "m1", ""), Entry("json", "m1", "m1"), Entry("json", "m2", "m2")}

\* registry.New: an empty map
EmptyTable == [k \in {} |-> Manifest("", "")]

\* r.manifests[m.ID] = m
Put(tab, m) == [k \in DOMAIN tab \cup {m.id} |-> IF k = m.id THEN m ELSE tab[k]]

\* ScanModules of handler s is between its entry and its return
Scanning(s) == scans[s].pc \in {"readdir", "loop", "install"}

\* a scan handler that has served no request
IdleScan ==
    [pc |-> "idle", entries |-> <<>>, i |-> 0, m |-> Manifest("", ""), status |-> 0,
     body |-> [error |-> "", modules |-> EmptyTable, ok |-> FALSE],
     before |-> EmptyTable, found |-> <<>>, quiet |-> FALSE,
     kind |-> "scan", raised |-> ""]

ScansIdle ==
    /\ scans = [s \in Scanners |-> IdleScan]
    /\ scanCalls = 0
    /\ dirChanges = 0

\* ---- HTTP requests and inbound registrations ------------------------------------

\* an HTTP request: its verb and the path below the route's prefix, split at "/"
Request(verb, parts) == [verb |-> verb, parts |-> parts]

NoRequest == Request("", <<>>)

\* registry.New: no registration; no request received
\* no inbound RPC served yet
NoRpc == [method |-> "", ok |-> FALSE]

\* no executable on disk and no resolveExecutablePath call made
NoResolved ==
    [id |-> "", exeName |-> "", requireRelease |-> FALSE, path |-> <<>>, err |-> ""]

ResolveIdle ==
    /\ files = {}
    /\ resolved = NoResolved

\* the goroutines whose lock steps are followed
Goroutines == {"g1", "g2"}

Mutexes == {"Manager.mu", "Registry.mu"}

\* a goroutine outside every call
NoCall == [fn |-> "", steps |-> <<>>]

\* sync.RWMutex zero value: unlocked; no goroutine inside a call
LockIdle ==
    /\ mu = [m \in Mutexes |-> [w |-> "", r |-> {}]]
    /\ prog = [g \in Goroutines |-> NoCall]
    /\ lockCalls = 0

\* no request served, no module registered
RequestsIdle ==
    /\ req = [h \in Threads \cup Scanners |-> NoRequest]
    /\ registered = [k \in {} |-> 0]
    /\ regs = <<>>

ExtIdle ==
    /\ RequestsIdle
    /\ rpc = NoRpc
    /\ ResolveIdle
    /\ LockIdle

\* ---- the summary handler ---------------------------------------------------

\* what the module's side answers during one fetchWidgetData call, read in the order
\* the code asks; a field the call never gets to is "unread"
Remote(dial, widgets, id, title, info, endpoint, http) ==
    [dial |-> dial, widgets |-> widgets, id |-> id, title |-> title,
     info |-> info, endpoint |-> endpoint, http |-> http]

NoRemote == Remote("unread", "unread", "", "", "unread", "", "unread")

SummaryIdle ==
    /\ modules = <<>>
    /\ summaries = <<>>
    /\ sumPc = "idle"
    /\ sumI = 0
    /\ fetched = NoRemote

\* ---- initial state: NewManager, no request served yet --------------------

\* no lifecycle handler has served a request
HandlersIdle ==
    /\ pc = [t \in Threads |-> "idle"]
    /\ op = [t \in Threads |-> "none"]
    /\ mid = [t \in Threads |-> "m1"]
    /\ mine = [t \in Threads |-> Nil]
    /\ result = [t \in Threads |-> "none"]
    /\ clean = [t \in Threads |-> FALSE]
    /\ startOk = {}
    /\ calls = 0

\* process.NewManager: an empty handle table
ManagerInit ==
    /\ processes = [id \in ModuleIDs |-> Nil]
    /\ cmds = <<>>
    /\ HandlersIdle

\* the lifecycle specification: the registry holds the manifests of ModuleIDs and is
\* not rescanned, the modules directory does not change, no summary is requested
Init ==
    /\ ManagerInit
    /\ manifests = [id \in ModuleIDs |-> Manifest(id, GrpcAddr(id))]
    /\ dir = [readable |-> TRUE, sub |-> [d \in Dirs |-> Absent]]
    /\ ScansIdle
    /\ SummaryIdle
    /\ ExtIdle

\* ---- HTTP handlers: routes.go looks the manifest up and calls the manager -

\* handler t enters StartModule(id): it overlaps or follows every StopModule(id) so far
EnterStart(t, id) ==
    [u \in Threads |->
        IF u = t THEN ~(\E v \in Threads \ {t} : InStop(v) /\ mid[v] = id)
        ELSE IF mid[u] = id /\ ~InStart(u) THEN FALSE
        ELSE clean[u]]

\* handler t enters StopModule(id): it overlaps every StartModule(id) in progress
EnterStop(t, id) ==
    [u \in Threads |->
        IF u = t THEN ~(\E v \in Threads \ {t} : InStart(v) /\ mid[v] = id)
        ELSE IF mid[u] = id /\ InStart(u) THEN FALSE
        ELSE clean[u]]

\* handlers.go 107 and 113: the start route calls StartModule(..., false, true), the
\* open-ui route StartModule(..., true, false)
ShowUI(t) == op[t] = "open-ui"

AutoConnect(t) == op[t] # "open-ui"

\* manager.go 87: cmd.Env = buildModuleEnv(hubAddr, showUI, autoConnect), the
\* environment of the process handler t launches in its call
Env(t) == buildModuleEnv(ShowUI(t), AutoConnect(t))

\* the start route hands the manifest of id to StartModule
BeginStart(t, id) ==
    /\ pc[t] \in {"idle", "done"}
    /\ calls < MaxCalls
    /\ calls' = calls + 1
    /\ op' = [op EXCEPT ![t] = "start"]
    /\ mid' = [mid EXCEPT ![t] = id]
    /\ pc' = [pc EXCEPT ![t] = "start_check"]
    /\ mine' = [mine EXCEPT ![t] = Nil]
    /\ result' = [result EXCEPT ![t] = "none"]
    /\ clean' = EnterStart(t, id)
    /\ UNCHANGED <<processes, cmds, startOk>>

\* POST /api/modules/{id}/start: StartModule(manifest, ..., showUI=false, autoConnect=true)
HandleStart(t, id) == BeginStart(t, id) /\ UNCHANGED <<regVars, sumVars, extVars>>

\* the stop and the open-ui route both call StopModule(id) first
BeginStop(t, id, kind) ==
    /\ pc[t] \in {"idle", "done"}
    /\ calls < MaxCalls
    /\ calls' = calls + 1
    /\ op' = [op EXCEPT ![t] = kind]
    /\ mid' = [mid EXCEPT ![t] = id]
    /\ pc' = [pc EXCEPT ![t] = "stop_check"]
    /\ mine' = [mine EXCEPT ![t] = Nil]
    /\ result' = [result EXCEPT ![t] = "none"]
    /\ clean' = EnterStop(t, id)
    /\ UNCHANGED <<processes, cmds, startOk>>

\* the stop and the open-ui route both begin with StopModule(id)
HandleStopFirst(t, id, kind) == BeginStop(t, id, kind) /\ UNCHANGED <<regVars, sumVars, extVars>>

\* POST /api/modules/{id}/stop
HandleStop(t, id) == HandleStopFirst(t, id, "stop")

\* POST /api/modules/{id}/open-ui: StopModule, result dropped, then StartModule(showUI=true)
HandleOpenUI(t, id) == HandleStopFirst(t, id, "open-ui")

\* ---- Manager.StartModule --------------------------------------------------

\* StartModule returns: the handler writes its response
StartReturn(t, res) ==
    /\ pc' = [pc EXCEPT ![t] = "done"]
    /\ result' = [result EXCEPT ![t] = res]
    /\ startOk' = IF res = "ok" THEN startOk \cup {mid[t]} ELSE startOk

\* StartCheck without the idempotence check of lines 55-60
StartCheckAlwaysSpawn(t) ==
    /\ pc[t] = "start_check"
    /\ IF mid[t] = "" \/ ArgAddr(t) = ""
       THEN StartReturn(t, "config_error")
       ELSE /\ pc' = [pc EXCEPT ![t] = "start_spawn"]
            /\ UNCHANGED <<result, startOk>>
    /\ UNCHANGED <<processes, cmds, op, mid, mine, clean, calls>>
    /\ UNCHANGED <<regVars, sumVars, extVars>>

\* StartCheck making the idempotence check of lines 55-60 before the configuration checks
StartCheckIdempotentFirst(t) ==
    /\ pc[t] = "start_check"
    /\ IF processes[mid[t]] # Nil /\ NonExited(processes[mid[t]])
       THEN StartReturn(t, "ok")
       ELSE IF mid[t] = "" \/ ArgAddr(t) = ""
       THEN StartReturn(t, "config_error")
       ELSE /\ pc' = [pc EXCEPT ![t] = "start_spawn"]
            /\ UNCHANGED <<result, startOk>>
    /\ UNCHANGED <<processes, cmds, op, mid, mine, clean, calls>>
    /\ UNCHANGED <<regVars, sumVars, extVars>>

\* lines 48-60: configuration checks, then the idempotence check under RLock
StartCheck(t) ==
    /\ pc[t] = "start_check"
    /\ IF mid[t] = "" \/ ArgAddr(t) = ""
       THEN StartReturn(t, "config_error")
       ELSE IF processes[mid[t]] # Nil /\ NonExited(processes[mid[t]])
       THEN StartReturn(t, "ok")
       ELSE /\ pc' = [pc EXCEPT ![t] = "start_spawn"]
            /\ UNCHANGED <<result, startOk>>
    /\ UNCHANGED <<processes, cmds, op, mid, mine, clean, calls>>
    /\ UNCHANGED <<regVars, sumVars, extVars>>

\* lines 62-93, failing: resolveExecutablePath, os.MkdirAll or cmd.Start returns an error
StartSpawnFail(t) ==
    /\ pc[t] = "start_spawn"
    /\ \E res \in {"exe_not_found", "datadir_error", "spawn_error"} : StartReturn(t, res)
    /\ UNCHANGED <<processes, cmds, op, mid, mine, clean, calls>>
    /\ UNCHANGED <<regVars, sumVars, extVars>>

\* lines 62-93, succeeding: cmd.Start launched a new OS process
StartSpawn(t) ==
    /\ pc[t] = "start_spawn"
    /\ Len(cmds) < MaxCmds
    /\ cmds' = Append(cmds, NewCmd(mid[t]))
    /\ mine' = [mine EXCEPT ![t] = Len(cmds) + 1]
    /\ pc' = [pc EXCEPT ![t] = "start_record"]
    /\ UNCHANGED <<processes, op, mid, result, clean, startOk, calls>>
    /\ UNCHANGED <<regVars, sumVars, extVars>>

\* lines 95-97: m.processes[manifest.ID] = cmd under the write lock
StartRecord(t) ==
    /\ pc[t] = "start_record"
    /\ processes' = [processes EXCEPT ![mid[t]] = mine[t]]
    /\ pc' = [pc EXCEPT ![t] = "start_probe"]
    /\ UNCHANGED <<cmds, op, mid, mine, result, clean, startOk, calls>>
    /\ UNCHANGED <<regVars, sumVars, extVars>>

\* lines 99, 104-111: waitForTCP connected; the exit waiter goroutine is started
StartProbeOk(t) ==
    /\ pc[t] = "start_probe"
    /\ Listening(ArgAddr(t))
    /\ cmds' = [cmds EXCEPT ![mine[t]].waiter = "waiting"]
    /\ StartReturn(t, "ok")
    /\ UNCHANGED <<processes, op, mid, mine, clean, calls>>
    /\ UNCHANGED <<regVars, sumVars, extVars>>

\* StartProbeTimeout without the cmd.Process.Kill of line 100
StartProbeTimeoutNoKill(t) ==
    /\ pc[t] = "start_probe"
    /\ ~Listening(ArgAddr(t))
    /\ StartReturn(t, "not_ready")
    /\ UNCHANGED <<processes, cmds, op, mid, mine, clean, calls>>
    /\ UNCHANGED <<regVars, sumVars, extVars>>

\* lines 99-102: waitForTCP reached its deadline; the process is killed, error returned
StartProbeTimeout(t) ==
    /\ pc[t] = "start_probe"
    /\ ~Listening(ArgAddr(t))
    /\ cmds' \in KillOutcomes(mine[t])
    /\ StartReturn(t, "not_ready")
    /\ UNCHANGED <<processes, op, mid, mine, clean, calls>>
    /\ UNCHANGED <<regVars, sumVars, extVars>>

\* lines 104-105: cmd.Wait returns once the process is gone and sets cmd.ProcessState.
\* The write is made outside m.mu while IsRunning and StartModule read the field under
\* the read lock: a racing read sees nil or the final value, which are the reads
\* before and after this step.
WaiterWait(c) ==
    /\ c \in DOMAIN cmds
    /\ cmds[c].waiter = "waiting"
    /\ ~Alive(c)
    /\ cmds' = [cmds EXCEPT ![c].state = cmds[c].status, ![c].waiter = "reaping"]
    /\ UNCHANGED <<processes, pc, op, mid, mine, result, clean, startOk, calls>>
    /\ UNCHANGED <<regVars, sumVars, extVars>>

\* WaiterReap without the delete of line 107
WaiterReapNoDelete(c) ==
    /\ c \in DOMAIN cmds
    /\ cmds[c].waiter = "reaping"
    /\ cmds' = [cmds EXCEPT ![c].waiter = "done"]
    /\ UNCHANGED <<processes, pc, op, mid, mine, result, clean, startOk, calls>>
    /\ UNCHANGED <<regVars, sumVars, extVars>>

\* lines 106-108: delete(m.processes, manifest.ID) under the write lock
WaiterReap(c) ==
    /\ c \in DOMAIN cmds
    /\ cmds[c].waiter = "reaping"
    /\ processes' = [processes EXCEPT ![cmds[c].id] = Nil]
    /\ cmds' = [cmds EXCEPT ![c].waiter = "done"]
    /\ UNCHANGED <<pc, op, mid, mine, result, clean, startOk, calls>>
    /\ UNCHANGED <<regVars, sumVars, extVars>>

\* ---- Manager.StopModule ---------------------------------------------------

\* StopModule returns; the open-ui route goes on to StartModule, the stop route responds
StopReturn(t) ==
    IF op[t] = "open-ui"
    THEN /\ pc' = [pc EXCEPT ![t] = "start_check"]
         /\ clean' = EnterStart(t, mid[t])
         /\ UNCHANGED result
    ELSE /\ pc' = [pc EXCEPT ![t] = "done"]
         /\ result' = [result EXCEPT ![t] = "ok"]
         /\ UNCHANGED clean

\* StopCheck without the early return of lines 118-121
StopCheckNoEarlyReturn(t) ==
    /\ pc[t] = "stop_check"
    /\ pc' = [pc EXCEPT ![t] = "stop_kill"]
    /\ UNCHANGED <<result, clean>>
    /\ UNCHANGED <<processes, cmds, op, mid, mine, startOk, calls>>
    /\ UNCHANGED <<regVars, sumVars, extVars>>

\* lines 116-122: first look at the handle; absent: return nil
StopCheck(t) ==
    /\ pc[t] = "stop_check"
    /\ IF processes[mid[t]] = Nil
       THEN StopReturn(t)
       ELSE /\ pc' = [pc EXCEPT ![t] = "stop_kill"]
            /\ UNCHANGED <<result, clean>>
    /\ UNCHANGED <<processes, cmds, op, mid, mine, startOk, calls>>
    /\ UNCHANGED <<regVars, sumVars, extVars>>

\* StopKill without the delete of line 134
StopKillNoDelete(t) ==
    /\ pc[t] = "stop_kill"
    /\ IF processes[mid[t]] = Nil
       THEN UNCHANGED cmds
       ELSE cmds' \in KillOutcomes(processes[mid[t]])
    /\ StopReturn(t)
    /\ UNCHANGED <<processes, op, mid, mine, startOk, calls>>
    /\ UNCHANGED <<regVars, sumVars, extVars>>

\* StopKill killing every live process of the module without re-reading the handle
StopKillBlind(t) ==
    /\ pc[t] = "stop_kill"
    /\ cmds' = [c \in DOMAIN cmds |->
                  IF cmds[c].id = mid[t] /\ Alive(c)
                  THEN [cmds[c] EXCEPT !.status = "signaled", !.listening = FALSE]
                  ELSE cmds[c]]
    /\ processes' = [processes EXCEPT ![mid[t]] = Nil]
    /\ StopReturn(t)
    /\ UNCHANGED <<op, mid, mine, startOk, calls>>
    /\ UNCHANGED <<regVars, sumVars, extVars>>

\* lines 124-135: after the disconnect attempt and the grace sleep the handle is read
\* again under the write lock; if present its process is killed and the entry deleted
StopKill(t) ==
    /\ pc[t] = "stop_kill"
    /\ IF processes[mid[t]] = Nil
       THEN UNCHANGED <<processes, cmds>>
       ELSE /\ cmds' \in KillOutcomes(processes[mid[t]])
            /\ processes' = [processes EXCEPT ![mid[t]] = Nil]
    /\ StopReturn(t)
    /\ UNCHANGED <<op, mid, mine, startOk, calls>>
    /\ UNCHANGED <<regVars, sumVars, extVars>>

\* ---- the module processes (environment) ------------------------------------

\* the module binds its gRPC address; the OS gives a port to one live process at a time
ProcListen(c) ==
    /\ Alive(c)
    /\ ~cmds[c].listening
    /\ ~Listening(GrpcAddr(cmds[c].id))
    /\ cmds' = [cmds EXCEPT ![c].listening = TRUE]
    /\ UNCHANGED <<processes, pc, op, mid, mine, result, clean, startOk, calls>>
    /\ UNCHANGED <<regVars, sumVars, extVars>>

\* the module exits on its own (after a disconnect, a crash) or is killed out-of-band
ProcExit(c) ==
    /\ Alive(c)
    /\ \E st \in {"exited", "signaled"} :
          cmds' = [cmds EXCEPT ![c].status = st, ![c].listening = FALSE]
    /\ UNCHANGED <<processes, pc, op, mid, mine, result, clean, startOk, calls>>
    /\ UNCHANGED <<regVars, sumVars, extVars>>

\* ---- summary.go lines 104-107: the entry BuildModuleSummaries starts for a module
\* when its loop reaches it in the current state
SummaryEntry(id) == [id |-> id, running |-> IsRunning(id)]

\* ---- GET /api/summary: routes.go 17-20, summary.go 103-184 --------------------

\* the module IDs of the summary specification: m0 has no grpc_addr and cannot be
\* started, m1 and m2 can
SummaryIDs == ModuleIDs \cup {"m2"}

\* Registry.ListModules: the manifests of the table, in the order the iteration over
\* the Go map happens to produce
Listings(tab) ==
    LET n == Cardinality(DOMAIN tab) IN
    {[i \in 1..n |-> tab[f[i]]] :
        f \in {g \in [1..n -> DOMAIN tab] : \A i, j \in 1..n : i # j => g[i] # g[j]}}

\* the answers a module can give: the dial fails; GetWidgets fails; it returns no
\* widget; it returns a widget with or without id and title, and then GetInfo fails,
\* or returns no UI URL, or the widget has no data endpoint, or the HTTP request
\* cannot be built, fails, answers another status than 200, breaks while the body is
\* read, or delivers the body
RemoteOutcomes ==
    {Remote("err", "unread", "", "", "unread", "", "unread")}
    \cup {Remote("ok", w, "", "", "unread", "", "unread") :
             w \in {"err_timeout", "err_refused", "empty"}}
    \cup UNION {
          {Remote("ok", "one", id, title, "err", "", "unread"),
           Remote("ok", "one", id, title, "no_url", "", "unread"),
           Remote("ok", "one", id, title, "url", "", "unread")}
          \cup {Remote("ok", "one", id, title, "url", "/e", h) :
                   h \in {"req_err", "do_err", "non200", "read_err", "ok"}}
          : id \in {"", "w"}, title \in {"", "t"}}

\* an answer the module's side can give when its process is in the current state: a
\* process that is gone or not listening refuses the connection
CanAnswer(addr, o) ==
    Listening(addr) \/ o.dial = "err" \/ o.widgets = "err_refused"

FetchResult(widgetType, payload, err) ==
    [widgetType |-> widgetType, payload |-> payload, err |-> err]

\* fetchWidgetData with every step after GetWidgets turned into a returned error
FetchWidgetDataStrict(addr, o) ==
    IF addr = "" THEN FetchResult("", "nil", "grpc_addr is not set in manifest")
    ELSE IF o.dial = "err" THEN FetchResult("", "nil", "dial")
    ELSE IF o.widgets \in {"err_timeout", "err_refused"} THEN FetchResult("", "nil", o.widgets)
    ELSE IF o.widgets = "empty" THEN FetchResult("", "nil", "")
    ELSE LET widgetType == IF o.id # "" THEN o.id ELSE o.title IN
         IF o.info = "err" \/ o.info = "no_url" \/ o.endpoint = "" \/ o.http # "ok"
         THEN FetchResult("", "nil", "secondary")
         ELSE FetchResult(widgetType, "data", "")

\* fetchWidgetData delivering a payload although GetWidgets returned no widget
FetchWidgetDataPayloadWithoutWidget(addr, o) ==
    IF addr = "" THEN FetchResult("", "nil", "grpc_addr is not set in manifest")
    ELSE IF o.dial = "err" THEN FetchResult("", "nil", "dial")
    ELSE IF o.widgets \in {"err_timeout", "err_refused"} THEN FetchResult("", "nil", o.widgets)
    ELSE IF o.widgets = "empty" THEN FetchResult("", "data", "")
    ELSE LET widgetType == IF o.id # "" THEN o.id ELSE o.title IN
         IF o.info \in {"err", "no_url"} \/ o.endpoint = "" \/ o.http # "ok"
         THEN FetchResult(widgetType, "nil", "")
         ELSE FetchResult(widgetType, "data", "")

\* summary.go 122-184: fetchWidgetData(addr) when the module's side answers o
FetchWidgetData(addr, o) ==
    IF addr = "" THEN FetchResult("", "nil", "grpc_addr is not set in manifest")
    ELSE IF o.dial = "err" THEN FetchResult("", "nil", "dial")
    ELSE IF o.widgets \in {"err_timeout", "err_refused"} THEN FetchResult("", "nil", o.widgets)
    ELSE IF o.widgets = "empty" THEN FetchResult("", "nil", "")
    ELSE LET widgetType == IF o.id # "" THEN o.id ELSE o.title IN
         IF o.info = "err" THEN FetchResult(widgetType, "nil", "")
         ELSE IF o.info = "no_url" THEN FetchResult(widgetType, "nil", "")
         ELSE IF o.endpoint = "" THEN FetchResult(widgetType, "nil", "")
         ELSE IF o.http = "req_err" THEN FetchResult(widgetType, "nil", "")
         ELSE IF o.http = "do_err" THEN FetchResult(widgetType, "nil", "")
         ELSE IF o.http = "non200" THEN FetchResult(widgetType, "nil", "")
         ELSE IF o.http = "read_err" THEN FetchResult(widgetType, "nil", "")
         ELSE FetchResult(widgetType, "data", "")

\* api.ModuleSummary
ModuleSummary(m, running, widgetType, payload, err) ==
    [manifest |-> m, running |-> running, widgetType |-> widgetType,
     payload |-> payload, error |-> err]

\* routes.go 18: the handler takes the list of manifests and enters BuildModuleSummaries
HandleSummary(mods) ==
    /\ sumPc = "idle"
    /\ modules' = mods
    /\ summaries' = <<>>
    /\ sumI' = 1
    /\ sumPc' = "loop"
    /\ UNCHANGED <<fetched, supVars, regVars, extVars>>

\* SummaryNotRunning appending an entry that reports an error for a stopped module
SummaryNotRunningWithError ==
    /\ sumPc = "loop"
    /\ sumI <= Len(modules)
    /\ ~SummaryEntry(modules[sumI].id).running
    /\ summaries' = Append(summaries,
                       ModuleSummary(modules[sumI], FALSE, "", "nil", "not running"))
    /\ sumI' = sumI + 1
    /\ UNCHANGED <<modules, sumPc, fetched, supVars, regVars, extVars>>

\* summary.go 105-107, 117: IsRunning is false; the entry is appended as it is
SummaryNotRunning ==
    /\ sumPc = "loop"
    /\ sumI <= Len(modules)
    /\ ~SummaryEntry(modules[sumI].id).running
    /\ summaries' = Append(summaries, ModuleSummary(modules[sumI], FALSE, "", "nil", ""))
    /\ sumI' = sumI + 1
    /\ UNCHANGED <<modules, sumPc, fetched, supVars, regVars, extVars>>

\* summary.go 105-108: IsRunning is true; the loop calls fetchWidgetData for the k-th
\* module, which is the one the for loop has reached
SummaryFetchStart(k) ==
    /\ sumPc = "loop"
    /\ k = sumI
    /\ k <= Len(modules)
    /\ SummaryEntry(modules[k].id).running
    /\ sumPc' = "fetching"
    /\ UNCHANGED <<modules, summaries, sumI, fetched, supVars, regVars, extVars>>

\* SummaryFetchDone ending the loop without an entry when the fetch returned an error
SummaryFetchDoneAbortOnError(o) ==
    /\ sumPc = "fetching"
    /\ CanAnswer(modules[sumI].grpcAddr, o)
    /\ LET m == modules[sumI]
           r == FetchWidgetData(m.grpcAddr, o)
       IN  /\ fetched' = IF m.grpcAddr = "" THEN NoRemote ELSE o
           /\ IF r.err # ""
              THEN /\ summaries' = summaries
                   /\ sumI' = Len(modules) + 1
              ELSE /\ summaries' = Append(summaries,
                                     ModuleSummary(m, TRUE, r.widgetType, r.payload, ""))
                   /\ sumI' = sumI + 1
    /\ sumPc' = "loop"
    /\ UNCHANGED <<modules, supVars, regVars, extVars>>

\* summary.go 108-117: fetchWidgetData returns; an error goes into the entry's error
\* field, otherwise widget type and payload are filled in; the entry is appended
SummaryFetchDone(o) ==
    /\ sumPc = "fetching"
    /\ CanAnswer(modules[sumI].grpcAddr, o)
    /\ LET m == modules[sumI]
           r == FetchWidgetData(m.grpcAddr, o)
       IN  /\ fetched' = IF m.grpcAddr = "" THEN NoRemote ELSE o
           /\ summaries' = Append(summaries,
                 IF r.err # ""
                 THEN ModuleSummary(m, TRUE, "", "nil", r.err)
                 ELSE ModuleSummary(m, TRUE, r.widgetType, r.payload, ""))
    /\ sumI' = sumI + 1
    /\ sumPc' = "loop"
    /\ UNCHANGED <<modules, supVars, regVars, extVars>>

\* summary.go 119, routes.go 19: the loop is over, the summaries are written as JSON
SummaryRespond ==
    /\ sumPc = "loop"
    /\ sumI > Len(modules)
    /\ sumPc' = "done"
    /\ UNCHANGED <<modules, summaries, sumI, fetched, supVars, regVars, extVars>>

\* the handle table and the processes after StartModule has succeeded for the IDs of
\* run: one live, listening process each, with its exit waiter
StartedCmds(run) ==
    LET ids == SelectSeq(<<"m1", "m2">>, LAMBDA id : id \in run) IN
    [c \in DOMAIN ids |->
        [id |-> ids[c], status |-> "running", listening |-> TRUE,
         state |-> "nil", waiter |-> "waiting"]]

\* a hub whose registry holds any manifests of SummaryIDs and whose supervisor has
\* started any of the startable modules; then one summary request is served while
\* the module processes live or die
SummaryInit ==
    /\ \E run \in SUBSET {"m1", "m2"} :
          /\ cmds = StartedCmds(run)
          /\ processes = [id \in SummaryIDs |->
                IF id \in run THEN CHOOSE c \in DOMAIN StartedCmds(run) : StartedCmds(run)[c].id = id
                ELSE Nil]
    /\ HandlersIdle
    /\ \E ids \in SUBSET SummaryIDs, a1 \in {"", "m1"} :
          manifests = [id \in ids |-> Manifest(id, IF id = "m1" THEN a1 ELSE GrpcAddr(id))]
    /\ dir = [readable |-> TRUE, sub |-> [d \in Dirs |-> Absent]]
    /\ ScansIdle
    /\ SummaryIdle
    /\ ExtIdle

SummaryNext ==
    \/ \E mods \in Listings(manifests) : HandleSummary(mods)
    \/ SummaryNotRunning
    \/ \E k \in DOMAIN modules : SummaryFetchStart(k)
    \/ \E o \in RemoteOutcomes : SummaryFetchDone(o)
    \/ SummaryRespond
    \/ \E c \in DOMAIN cmds : ProcExit(c)
    \/ \E c \in DOMAIN cmds : WaiterWait(c)
    \/ \E c \in DOMAIN cmds : WaiterReap(c)

SummarySpec == SummaryInit /\ [][SummaryNext]_vars

\* ---- POST /api/scan: routes.go 22-28, registry.go 36-68 ------------------------

\* the scan route calls ScanModules(modulesDir)
BeginScan(s) ==
    /\ scans[s].pc \in {"idle", "done"}
    /\ scanCalls < MaxScans
    /\ scanCalls' = scanCalls + 1
    /\ scans' = [t \in Scanners |->
          IF t = s
          THEN [IdleScan EXCEPT !.pc = "readdir", !.before = manifests,
                                !.quiet = ~(\E u \in Scanners \ {s} : Scanning(u))]
          ELSE IF Scanning(t) THEN [scans[t] EXCEPT !.quiet = FALSE]
          ELSE scans[t]]

\* the scan route is requested: handler s enters ScanModules. The history fields keep
\* the table the scan started from and whether the scan ran with no other scan and no
\* change of the directory overlapping it.
HandleScan(s) ==
    /\ BeginScan(s)
    /\ UNCHANGED <<manifests, dir, dirChanges, supVars, sumVars, extVars>>

\* os.ReadDir(modulesDir): the names present, sorted, each with its type
ReadDir ==
    LET names == SelectSeq(DirOrder, LAMBDA d : dir.sub[d].kind # "absent") IN
    [j \in DOMAIN names |->
        [name |-> names[j], isDir |-> dir.sub[names[j]].kind # "file"]]

\* handlers.go 55-58, 75-78: ScanModules returned the error of os.ReadDir. The scan
\* route answers 500 with the error; the add route logs it and answers 200.
ScanFailed(s) ==
    [IdleScan EXCEPT
        !.pc = "done", !.kind = scans[s].kind, !.raised = "readdir",
        !.status = IF scans[s].kind = "add" THEN 200 ELSE 500,
        !.body = IF scans[s].kind = "add"
                 THEN [error |-> "", modules |-> EmptyTable, ok |-> TRUE]
                 ELSE [error |-> "readdir", modules |-> EmptyTable, ok |-> FALSE],
        !.quiet = scans[s].quiet]

\* ScanReadDir treating a directory that cannot be read as an empty one
ScanReadDirIgnoreError(s) ==
    /\ scans[s].pc = "readdir"
    /\ scans' = [scans EXCEPT ![s].pc = "loop", ![s].i = 1,
                              ![s].entries = IF dir.readable THEN ReadDir ELSE <<>>]
    /\ UNCHANGED <<manifests, dir, scanCalls, dirChanges, supVars, sumVars, extVars>>

\* ScanReadDir replacing the table by an empty one before the loop
ScanReadDirClearing(s) ==
    /\ scans[s].pc = "readdir"
    /\ IF dir.readable
       THEN /\ scans' = [scans EXCEPT ![s].pc = "loop", ![s].i = 1, ![s].entries = ReadDir]
            /\ manifests' = EmptyTable
       ELSE /\ scans' = [scans EXCEPT ![s] = ScanFailed(s)]
            /\ manifests' = manifests
    /\ UNCHANGED <<dir, scanCalls, dirChanges, supVars, sumVars, extVars>>

\* registry.go 37-40, routes.go 23-26: os.ReadDir; its error is returned and the route
\* answers 500 with an error body; otherwise the loop begins
ScanReadDir(s) ==
    /\ scans[s].pc = "readdir"
    /\ IF dir.readable
       THEN scans' = [scans EXCEPT ![s].pc = "loop", ![s].i = 1, ![s].entries = ReadDir]
       ELSE scans' = [scans EXCEPT ![s] = ScanFailed(s)]
    /\ UNCHANGED <<manifests, dir, scanCalls, dirChanges, supVars, sumVars, extVars>>

\* the loop goes on to the next entry
ScanSkip(s) == [scans EXCEPT ![s].i = scans[s].i + 1]

\* ScanRead giving up the rest of the directory at the first entry it cannot use
ScanReadStopAtInvalid(s) ==
    /\ scans[s].pc = "loop"
    /\ scans[s].i <= Len(scans[s].entries)
    /\ LET e == scans[s].entries[scans[s].i]
           c == dir.sub[e.name]
       IN  IF e.isDir /\ dir.readable /\ c.kind = "json" /\ c.id # ""
           THEN scans' = [scans EXCEPT ![s].pc = "install",
                                       ![s].m = Manifest(c.id, c.grpcAddr),
                                       ![s].found = Append(scans[s].found,
                                                           Manifest(c.id, c.grpcAddr))]
           ELSE scans' = [scans EXCEPT ![s].i = Len(scans[s].entries) + 1]
    /\ UNCHANGED <<manifests, dir, scanCalls, dirChanges, supVars, sumVars, extVars>>

\* registry.go 43-60: one entry of the loop up to the lock. An entry that is not a
\* directory, a manifest.json that cannot be read (47-50) or unmarshalled (52-55), and
\* an empty ID (57-59) are skipped with continue.
ScanRead(s) ==
    /\ scans[s].pc = "loop"
    /\ scans[s].i <= Len(scans[s].entries)
    /\ LET e == scans[s].entries[scans[s].i]
           c == dir.sub[e.name]
       IN  IF ~e.isDir THEN scans' = ScanSkip(s)
           ELSE IF ~dir.readable \/ c.kind \in {"absent", "file", "no_manifest"}
           THEN scans' = ScanSkip(s)
           ELSE IF c.kind = "bad_json" THEN scans' = ScanSkip(s)
           ELSE IF c.id = "" THEN scans' = ScanSkip(s)
           ELSE scans' = [scans EXCEPT ![s].pc = "install",
                                       ![s].m = Manifest(c.id, c.grpcAddr),
                                       ![s].found = Append(scans[s].found,
                                                           Manifest(c.id, c.grpcAddr))]
    /\ UNCHANGED <<manifests, dir, scanCalls, dirChanges, supVars, sumVars, extVars>>

\* ScanInstall keeping the entry the table already has for the ID
ScanInstallKeepExisting(s) ==
    /\ scans[s].pc = "install"
    /\ manifests' = IF scans[s].m.id \in DOMAIN manifests THEN manifests
                    ELSE Put(manifests, scans[s].m)
    /\ scans' = [scans EXCEPT ![s].pc = "loop", ![s].i = scans[s].i + 1,
                              ![s].m = Manifest("", "")]
    /\ UNCHANGED <<dir, scanCalls, dirChanges, supVars, sumVars, extVars>>

\* ScanInstall writing the manifest field by field: the ID first, the address later
ScanInstallTorn(s) ==
    /\ scans[s].pc = "install"
    /\ manifests' = Put(manifests, Manifest(scans[s].m.id,
                            IF scans[s].m.id \in DOMAIN manifests
                            THEN manifests[scans[s].m.id].grpcAddr ELSE ""))
    /\ scans' = [scans EXCEPT ![s].pc = "loop", ![s].i = scans[s].i + 1,
                              ![s].m = Manifest("", "")]
    /\ UNCHANGED <<dir, scanCalls, dirChanges, supVars, sumVars, extVars>>

\* ScanInstall replacing the whole table by the one manifest it installs
ScanInstallDropOthers(s) ==
    /\ scans[s].pc = "install"
    /\ manifests' = Put(EmptyTable, scans[s].m)
    /\ scans' = [scans EXCEPT ![s].pc = "loop", ![s].i = scans[s].i + 1,
                              ![s].m = Manifest("", "")]
    /\ UNCHANGED <<dir, scanCalls, dirChanges, supVars, sumVars, extVars>>

\* registry.go 62-64: r.manifests[m.ID] = m under the write lock
ScanInstall(s) ==
    /\ scans[s].pc = "install"
    /\ manifests' = Put(manifests, scans[s].m)
    /\ scans' = [scans EXCEPT ![s].pc = "loop", ![s].i = scans[s].i + 1,
                              ![s].m = Manifest("", "")]
    /\ UNCHANGED <<dir, scanCalls, dirChanges, supVars, sumVars, extVars>>

\* registry.go 67, routes.go 27: the loop is over, ScanModules returns nil and the
\* route answers 200 with ListModules(). The locals of the call are gone; the history
\* keeps what the scan found and whether it ran undisturbed.
ScanRespond(s) ==
    /\ scans[s].pc = "loop"
    /\ scans[s].i > Len(scans[s].entries)
    /\ scans' = [scans EXCEPT ![s] = [IdleScan EXCEPT
                        !.pc = "done", !.kind = scans[s].kind, !.status = 200,
                        !.body = IF scans[s].kind = "add"
                                 THEN [error |-> "", modules |-> EmptyTable, ok |-> TRUE]
                                 ELSE [error |-> "", modules |-> manifests, ok |-> FALSE],
                        !.found = scans[s].found, !.quiet = scans[s].quiet]]
    /\ UNCHANGED <<manifests, dir, scanCalls, dirChanges, supVars, sumVars, extVars>>

\* a change of the directory overlaps every scan in progress
Disturbed == [t \in Scanners |-> IF Scanning(t) THEN [scans[t] EXCEPT !.quiet = FALSE] ELSE scans[t]]

\* somebody adds, removes or rewrites one name of the modules directory
DirWrite(d, c) ==
    /\ dirChanges < MaxDirChanges
    /\ c # dir.sub[d]
    /\ dir' = [dir EXCEPT !.sub[d] = c]
    /\ dirChanges' = dirChanges + 1
    /\ scans' = Disturbed
    /\ UNCHANGED <<manifests, scanCalls, supVars, sumVars, extVars>>

\* the modules directory itself is removed or made unreadable, or restored
DirSetReadable(b) ==
    /\ dirChanges < MaxDirChanges
    /\ b # dir.readable
    /\ dir' = [dir EXCEPT !.readable = b]
    /\ dirChanges' = dirChanges + 1
    /\ scans' = Disturbed
    /\ UNCHANGED <<manifests, scanCalls, supVars, sumVars, extVars>>

\* registry.New and any content of the modules directory
RegistryInit ==
    /\ ManagerInit
    /\ manifests = EmptyTable
    /\ dir \in [readable : BOOLEAN, sub : [Dirs -> Contents]]
    /\ ScansIdle
    /\ SummaryIdle
    /\ ExtIdle

RegistryNext ==
    \/ \E s \in Scanners : HandleScan(s)
    \/ \E s \in Scanners : ScanReadDir(s)
    \/ \E s \in Scanners : ScanRead(s)
    \/ \E s \in Scanners : ScanInstall(s)
    \/ \E s \in Scanners : ScanRespond(s)
    \/ \E d \in Dirs, c \in Contents : DirWrite(d, c)
    \/ \E b \in BOOLEAN : DirSetReadable(b)

RegistrySpec == RegistryInit /\ [][RegistryNext]_vars

Next ==
    \/ \E t \in Threads, id \in ModuleIDs : HandleStart(t, id)
    \/ \E t \in Threads, id \in ModuleIDs : HandleStop(t, id)
    \/ \E t \in Threads, id \in ModuleIDs : HandleOpenUI(t, id)
    \/ \E t \in Threads : StartCheck(t)
    \/ \E t \in Threads : StartSpawnFail(t)
    \/ \E t \in Threads : StartSpawn(t)
    \/ \E t \in Threads : StartRecord(t)
    \/ \E t \in Threads : StartProbeOk(t)
    \/ \E t \in Threads : StartProbeTimeout(t)
    \/ \E t \in Threads : StopCheck(t)
    \/ \E t \in Threads : StopKill(t)
    \/ \E c \in DOMAIN cmds : WaiterWait(c)
    \/ \E c \in DOMAIN cmds : WaiterReap(c)
    \/ \E c \in DOMAIN cmds : ProcListen(c)
    \/ \E c \in DOMAIN cmds : ProcExit(c)

Spec == Init /\ [][Next]_vars

\* The Go scheduler runs every goroutine that can take a step: the handlers inside
\* StartModule/StopModule and the exit waiters. Clients need not send requests and
\* module processes need not exit or listen.
HandlerStep(t) ==
    \/ StartCheck(t) \/ StartSpawnFail(t) \/ StartSpawn(t) \/ StartRecord(t)
    \/ StartProbeOk(t) \/ StartProbeTimeout(t) \/ StopCheck(t) \/ StopKill(t)

WaiterStep(c) == WaiterWait(c) \/ WaiterReap(c)

Fairness ==
    /\ \A t \in Threads : WF_vars(HandlerStep(t))
    /\ \A c \in 1..MaxCmds : WF_vars(WaiterStep(c))

\* the three routes, for behaviours with at most MaxFairCalls requests
FairHandleStart(t, id) == calls < MaxFairCalls /\ HandleStart(t, id)

FairHandleStop(t, id) == calls < MaxFairCalls /\ HandleStop(t, id)

FairHandleOpenUI(t, id) == calls < MaxFairCalls /\ HandleOpenUI(t, id)

FairNext ==
    \/ \E t \in Threads, id \in ModuleIDs : FairHandleStart(t, id)
    \/ \E t \in Threads, id \in ModuleIDs : FairHandleStop(t, id)
    \/ \E t \in Threads, id \in ModuleIDs : FairHandleOpenUI(t, id)
    \/ \E t \in Threads : StartCheck(t)
    \/ \E t \in Threads : StartSpawnFail(t)
    \/ \E t \in Threads : StartSpawn(t)
    \/ \E t \in Threads : StartRecord(t)
    \/ \E t \in Threads : StartProbeOk(t)
    \/ \E t \in Threads : StartProbeTimeout(t)
    \/ \E t \in Threads : StopCheck(t)
    \/ \E t \in Threads : StopKill(t)
    \/ \E c \in DOMAIN cmds : WaiterWait(c)
    \/ \E c \in DOMAIN cmds : WaiterReap(c)
    \/ \E c \in DOMAIN cmds : ProcListen(c)
    \/ \E c \in DOMAIN cmds : ProcExit(c)

FairSpec == Init /\ [][FairNext]_vars /\ Fairness

\* ---- the HTTP routes of api.NewMux over the supervisor and the registry --------

\* Registry.GetManifest
GetManifest(id) ==
    IF id \in DOMAIN manifests
    THEN [ok |-> TRUE, m |-> manifests[id]]
    ELSE [ok |-> FALSE, m |-> Manifest("", "")]

Verbs == {"POST", "GET", "OPTIONS"}

\* what follows "/api/modules/" in the path, split at "/"
RouteParts == {<<"m1">>} \cup {<<"m1", a>> : a \in {"start", "open-ui", "stop", "restart"}}

\* the handler answers at once, calling neither the supervisor nor the registry
RouteReply(t, res) ==
    /\ calls < MaxCalls
    /\ calls' = calls + 1
    /\ pc' = [pc EXCEPT ![t] = "done"]
    /\ op' = [op EXCEPT ![t] = "none"]
    /\ result' = [result EXCEPT ![t] = res]
    /\ UNCHANGED <<processes, cmds, mid, mine, clean, startOk>>

\* HandleModuleRoute answering 200 for a module the registry does not know
HandleModuleRouteNoLookup(t, verb, parts) ==
    /\ pc[t] = "idle"
    /\ calls + scanCalls < MaxRequests
    /\ req' = [req EXCEPT ![t] = Request(verb, parts)]
    /\ IF verb = "OPTIONS" THEN RouteReply(t, "preflight")
       ELSE IF verb # "POST" THEN RouteReply(t, "method_not_allowed")
       ELSE IF Len(parts) # 2 THEN RouteReply(t, "invalid_route")
       ELSE IF ~GetManifest(parts[1]).ok THEN RouteReply(t, "ok")
       ELSE IF parts[2] = "start" THEN BeginStart(t, parts[1])
       ELSE IF parts[2] = "open-ui" THEN BeginStop(t, parts[1], "open-ui")
       ELSE IF parts[2] = "stop" THEN BeginStop(t, parts[1], "stop")
       ELSE RouteReply(t, "unknown_action")
    /\ UNCHANGED <<regVars, sumVars, registered, regs, rpc, resVars, lockVars>>

\* HandleModuleRoute whose open-ui action calls StartModule without StopModule first
HandleModuleRouteOpenUINoStop(t, verb, parts) ==
    /\ pc[t] = "idle"
    /\ calls + scanCalls < MaxRequests
    /\ req' = [req EXCEPT ![t] = Request(verb, parts)]
    /\ IF verb = "OPTIONS" THEN RouteReply(t, "preflight")
       ELSE IF verb # "POST" THEN RouteReply(t, "method_not_allowed")
       ELSE IF Len(parts) # 2 THEN RouteReply(t, "invalid_route")
       ELSE IF ~GetManifest(parts[1]).ok THEN RouteReply(t, "module_not_found")
       ELSE IF parts[2] = "start" THEN BeginStart(t, parts[1])
       ELSE IF parts[2] = "open-ui"
       THEN /\ calls < MaxCalls
            /\ calls' = calls + 1
            /\ op' = [op EXCEPT ![t] = "open-ui"]
            /\ mid' = [mid EXCEPT ![t] = parts[1]]
            /\ pc' = [pc EXCEPT ![t] = "start_check"]
            /\ mine' = [mine EXCEPT ![t] = Nil]
            /\ result' = [result EXCEPT ![t] = "none"]
            /\ clean' = EnterStart(t, parts[1])
            /\ UNCHANGED <<processes, cmds, startOk>>
       ELSE IF parts[2] = "stop" THEN BeginStop(t, parts[1], "stop")
       ELSE RouteReply(t, "unknown_action")
    /\ UNCHANGED <<regVars, sumVars, registered, regs, rpc, resVars, lockVars>>

\* handlers.go 81-128, the handler of "/api/modules/", run by net/http in a goroutine
\* of its own for each request: CORS preflight, verb check, path split, manifest
\* lookup, then the action
HandleModuleRoute(t, verb, parts) ==
    /\ pc[t] = "idle"
    /\ calls + scanCalls < MaxRequests
    /\ req' = [req EXCEPT ![t] = Request(verb, parts)]
    /\ IF verb = "OPTIONS" THEN RouteReply(t, "preflight")
       ELSE IF verb # "POST" THEN RouteReply(t, "method_not_allowed")
       ELSE IF Len(parts) # 2 THEN RouteReply(t, "invalid_route")
       ELSE IF ~GetManifest(parts[1]).ok THEN RouteReply(t, "module_not_found")
       ELSE IF parts[2] = "start" THEN BeginStart(t, parts[1])
       ELSE IF parts[2] = "open-ui" THEN BeginStop(t, parts[1], "open-ui")
       ELSE IF parts[2] = "stop" THEN BeginStop(t, parts[1], "stop")
       ELSE RouteReply(t, "unknown_action")
    /\ UNCHANGED <<regVars, sumVars, registered, regs, rpc, resVars, lockVars>>

\* an HTTP response: status code, the body's error field ("" if it has none) and
\* whether the body has ok = true
Response(status, error, ok) == [status |-> status, error |-> error, ok |-> ok]

\* RouteResponse answering 400 to every request it refuses
RouteResponseAll400(res) ==
    IF res = "ok" THEN Response(200, "", TRUE)
    ELSE IF res = "preflight" THEN Response(204, "", FALSE)
    ELSE Response(400, res, FALSE)

\* handlers.go 81-128 with WriteJSON and ApplyCORS: what the handler of "/api/modules/"
\* writes for each way it can end
RouteResponse(res) ==
    IF res = "ok" THEN Response(200, "", TRUE)
    ELSE IF res = "preflight" THEN Response(204, "", FALSE)
    ELSE IF res = "method_not_allowed" THEN Response(405, res, FALSE)
    ELSE IF res \in {"invalid_route", "module_not_found", "unknown_action"}
    THEN Response(404, res, FALSE)
    ELSE Response(400, res, FALSE)

\* the scan handler answers at once, not calling the registry
ScanReply(s, status, error) ==
    /\ scanCalls < MaxScans
    /\ scanCalls' = scanCalls + 1
    /\ scans' = [scans EXCEPT ![s] = [IdleScan EXCEPT
                        !.pc = "done", !.status = status,
                        !.body = [error |-> error, modules |-> EmptyTable, ok |-> FALSE],
                        !.found = scans[s].found, !.quiet = scans[s].quiet]]

\* handlers.go 47-60, the handler of "/api/scan": CORS preflight, verb check, ScanModules
HandleScanRoute(s, verb) ==
    /\ scans[s].pc = "idle"
    /\ calls + scanCalls < MaxRequests
    /\ req' = [req EXCEPT ![s] = Request(verb, <<>>)]
    /\ IF verb = "OPTIONS" THEN ScanReply(s, 204, "")
       ELSE IF verb # "POST" THEN ScanReply(s, 405, "method_not_allowed")
       ELSE BeginScan(s)
    /\ UNCHANGED <<manifests, dir, dirChanges, supVars, sumVars, registered, regs, rpc, resVars, lockVars>>

\* a hub whose registry knows m0 and possibly m1, whose manifest may have lost its
\* grpc_addr since the module was started; the modules directory holds no folder
RouteInit ==
    /\ \E a1 \in {"none", "", "m1"}, run \in BOOLEAN :
          /\ run => a1 # "none"
          /\ manifests = [id \in (IF a1 = "none" THEN {"m0"} ELSE {"m0", "m1"}) |->
                            Manifest(id, IF id = "m1" THEN a1 ELSE GrpcAddr(id))]
          /\ cmds = IF run THEN StartedCmds({"m1"}) ELSE <<>>
          /\ processes = [id \in ModuleIDs |-> IF run /\ id = "m1" THEN 1 ELSE Nil]
    /\ HandlersIdle
    /\ dir \in [readable : BOOLEAN, sub : [Dirs -> {Absent}]]
    /\ ScansIdle
    /\ SummaryIdle
    /\ ExtIdle

RouteNext ==
    \/ \E t \in Threads, verb \in Verbs, parts \in RouteParts : HandleModuleRoute(t, verb, parts)
    \/ \E verb \in Verbs : HandleScanRoute("s1", verb)
    \/ ScanReadDir("s1")
    \/ ScanRespond("s1")
    \/ \E t \in Threads : StartCheck(t)
    \/ \E t \in Threads : StartSpawnFail(t)
    \/ \E t \in Threads : StartSpawn(t)
    \/ \E t \in Threads : StartRecord(t)
    \/ \E t \in Threads : StartProbeOk(t)
    \/ \E t \in Threads : StartProbeTimeout(t)
    \/ \E t \in Threads : StopCheck(t)
    \/ \E t \in Threads : StopKill(t)
    \/ \E c \in DOMAIN cmds : WaiterWait(c)
    \/ \E c \in DOMAIN cmds : WaiterReap(c)
    \/ \E c \in DOMAIN cmds : ProcListen(c)
    \/ \E c \in DOMAIN cmds : ProcExit(c)

RouteSpec == RouteInit /\ [][RouteNext]_vars

\* ---- module intake: uploads, scans and inbound registrations --------------------

\* the manifest.json of an upload: not valid JSON, without an id, or the manifest of m1
Uploads == {Entry("bad_json", "", ""), Entry("json", "", ""), Entry("json", "m1", "m1")}

\* handlers.go 62-79, manifest.go 42-116: POST /api/modules/add. AddModuleFromMultipart
\* refuses an upload whose manifest.json is missing, is not JSON or has no id, or
\* whose folder cannot be created (400); otherwise it writes the folder named after
\* the id, here the name d, and the handler runs ScanModules.
HandleAdd(s, d, up) ==
    /\ scans[s].pc \in {"idle", "done"}
    /\ scanCalls < MaxScans
    /\ scanCalls' = scanCalls + 1
    /\ IF up.kind # "json" \/ up.id = "" \/ dir.sub[d].kind = "file"
       THEN /\ scans' = [scans EXCEPT ![s] = [IdleScan EXCEPT
                            !.pc = "done", !.kind = "add", !.raised = "upload",
                            !.status = 400,
                            !.body = [error |-> "upload", modules |-> EmptyTable, ok |-> FALSE],
                            !.found = scans[s].found, !.quiet = scans[s].quiet]]
            /\ dir' = dir
       ELSE /\ dir' = [dir EXCEPT !.sub[d] = up]
            /\ scans' = [t \in Scanners |->
                  IF t = s
                  THEN [IdleScan EXCEPT !.pc = "readdir", !.kind = "add",
                                        !.before = manifests,
                                        !.quiet = ~(\E u \in Scanners \ {s} : Scanning(u))]
                  ELSE IF Scanning(t) THEN [scans[t] EXCEPT !.quiet = FALSE]
                  ELSE scans[t]]
    /\ UNCHANGED <<manifests, dirChanges, supVars, sumVars, extVars>>

\* registry.go 73-79: registeredEntry{ID, Version, PID}
RegisteredEntry(id, version, pid) == [id |-> id, version |-> version, pid |-> pid]

\* the module IDs and versions a Register call can carry; no manifest has the ID m3
RegIDs == {"m1", "m3"}

RegVersions == {"v1", "v2"}

\* RegisterModule keeping the registration the table already has for the ID
RegisterModuleKeepFirst(id, version, pid) ==
    /\ Len(regs) < MaxRegs
    /\ registered' =
          IF id \in DOMAIN registered THEN registered
          ELSE [k \in DOMAIN registered \cup {id} |->
                  IF k = id THEN RegisteredEntry(id, version, pid) ELSE registered[k]]
    /\ regs' = Append(regs, RegisteredEntry(id, version, pid))
    /\ UNCHANGED <<req, supVars, regVars, sumVars, resVars, lockVars>>

\* registry.go 71-80: r.registered[moduleID] = registeredEntry{...} under the write lock
RegisterModule(id, version, pid) ==
    /\ Len(regs) < MaxRegs
    /\ registered' = [k \in DOMAIN registered \cup {id} |->
                        IF k = id THEN RegisteredEntry(id, version, pid) ELSE registered[k]]
    /\ regs' = Append(regs, RegisteredEntry(id, version, pid))
    /\ UNCHANGED <<req, supVars, regVars, sumVars, resVars, lockVars>>

\* the process ids a Register call can report
RegPids == {0, 7}

\* the reply of an inbound RPC
RpcReply(method, ok) == [method |-> method, ok |-> ok]

\* registry.go 124-132, hubgrpc.Server.Register: the inbound Register RPC passes pid 0
\* whatever the module reports and always answers success
Register(id, version, pid) ==
    /\ RegisterModule(id, version, 0)
    /\ rpc' = RpcReply("Register", TRUE)

\* registry.New, no process started, and a modules directory holding any of: nothing,
\* a folder with a manifest of m1 without grpc_addr, a folder with the manifest of m2
IntakeInit ==
    /\ ManagerInit
    /\ manifests = EmptyTable
    /\ dir \in [readable : BOOLEAN,
                sub : [Dirs -> {Absent, Entry("json", "m1", ""), Entry("json", "m2", "m2")}]]
    /\ ScansIdle
    /\ SummaryIdle
    /\ ExtIdle

IntakeNext ==
    \/ \E s \in Scanners : HandleScan(s)
    \/ \E s \in Scanners, d \in Dirs, up \in Uploads : HandleAdd(s, d, up)
    \/ \E s \in Scanners : ScanReadDir(s)
    \/ \E s \in Scanners : ScanRead(s)
    \/ \E s \in Scanners : ScanInstall(s)
    \/ \E s \in Scanners : ScanRespond(s)
    \/ \E id \in RegIDs, version \in RegVersions, pid \in RegPids : Register(id, version, pid)

IntakeSpec == IntakeInit /\ [][IntakeNext]_vars

\* ---- resolveExecutablePath (manager.go 138-174) ------------------------------

\* runtime.GOOS of the build
GOOS == "linux"

\* the one module ID that has fallback locations in a sibling repository
CompanionID == "com.nekkus.net"

ResolveIDs == {"m1", CompanionID}

\* the values manifest.Executable can have: nil (the key absent from manifest.json),
\* a map without an entry for GOOS, a map with one
Executables ==
    {[isNil |-> TRUE,  names |-> [os \in {} |-> ""]],
     [isNil |-> FALSE, names |-> [os \in {"windows"} |-> "mod.exe"]],
     [isNil |-> FALSE, names |-> [os \in {"linux", "windows"} |-> IF os = "linux" THEN "mod" ELSE "mod.exe"]]}

\* indexing a Go map: the zero value for a missing key
MapGet(names, key) == IF key \in DOMAIN names THEN names[key] ELSE ""

\* lines 147-148: filepath.Join(modulesDir, manifest.ID, exeName)
ModuleCandidate(id, exeName) == <<"modules", id, exeName>>

\* lines 155-156: repoBase/exeName with repoBase = modulesDir/../../nekkus-net
RootCandidate(exeName) == <<"nekkus-net", exeName>>

\* line 160: repoBase/build/bin/exeName
BuildCandidate(exeName) == <<"nekkus-net", "build", "bin", exeName>>

\* line 164: repoBase/bin/exeName
BinCandidate(exeName) == <<"nekkus-net", "bin", exeName>>

\* every path resolveExecutablePath can probe for the executable name "mod"
Candidates ==
    {ModuleCandidate(id, "mod") : id \in ResolveIDs}
        \cup {RootCandidate("mod"), BuildCandidate("mod"), BinCandidate("mod")}

\* pathutil.FileExists
FileExists(path) == path \in files

\* what resolveExecutablePath returns
Resolution(path, err) == [path |-> path, err |-> err]

\* manager.go 138-174
resolveExecutablePath(id, executable, requireRelease) ==
    IF executable.isNil THEN Resolution(<<>>, "executable is not configured")
    ELSE LET exeName == MapGet(executable.names, GOOS) IN
         IF exeName = "" THEN Resolution(<<>>, "executable is not set for GOOS")
         ELSE IF FileExists(ModuleCandidate(id, exeName))
         THEN Resolution(ModuleCandidate(id, exeName), "")
         ELSE IF id = CompanionID
         THEN IF FileExists(RootCandidate(exeName)) THEN Resolution(RootCandidate(exeName), "")
              ELSE IF FileExists(BuildCandidate(exeName)) THEN Resolution(BuildCandidate(exeName), "")
              ELSE IF FileExists(BinCandidate(exeName)) THEN Resolution(BinCandidate(exeName), "")
              ELSE IF requireRelease THEN Resolution(<<>>, "release build not found")
              ELSE Resolution(<<>>, "executable not found")
         ELSE Resolution(<<>>, "executable not found")

\* manager.go 62-65: StartModule resolves the executable of the manifest, with
\* requireRelease = showUI
Resolve(id, executable, showUI) ==
    /\ resolved' =
          [id |-> id, exeName |-> MapGet(executable.names, GOOS), requireRelease |-> showUI,
           path |-> resolveExecutablePath(id, executable, showUI).path,
           err |-> resolveExecutablePath(id, executable, showUI).err]
    /\ UNCHANGED <<files, supVars, regVars, sumVars, req, registered, regs, rpc, lockVars>>

\* a hub that has started nothing, on a disk holding any of the candidate files
ResolveInit ==
    /\ ManagerInit
    /\ manifests = EmptyTable
    /\ dir = [readable |-> TRUE, sub |-> [d \in Dirs |-> Absent]]
    /\ ScansIdle
    /\ SummaryIdle
    /\ RequestsIdle
    /\ rpc = NoRpc
    /\ LockIdle
    /\ files \in SUBSET Candidates
    /\ resolved = NoResolved

ResolveNext ==
    \E id \in ResolveIDs, executable \in Executables, showUI \in BOOLEAN :
        Resolve(id, executable, showUI)

ResolveSpec == ResolveInit /\ [][ResolveNext]_vars

\* ---- the inbound RPC surface -------------------------------------------------

\* hubServer.Register of the monolithic main (main.go 114-130), which keeps the same
\* table in its moduleRegistry: it stores the pid of the request and answers success
HubServerRegister(id, version, pid) ==
    /\ RegisterModule(id, version, pid)
    /\ rpc' = RpcReply("Register", TRUE)

\* hubServer.Notify (main.go 132-135): log.Printf, then Delivered: true
Notify ==
    /\ rpc' = RpcReply("Notify", TRUE)
    /\ UNCHANGED <<req, registered, regs, supVars, regVars, sumVars, resVars, lockVars>>

\* hubServer.Log (main.go 146-149): log.Printf, then Logged: true
Log ==
    /\ rpc' = RpcReply("Log", TRUE)
    /\ UNCHANGED <<req, registered, regs, supVars, regVars, sumVars, resVars, lockVars>>

\* hubServer.GetSystemInfo (main.go 137-144): answers runtime.GOOS and runtime.GOARCH
GetSystemInfo ==
    /\ rpc' = RpcReply("GetSystemInfo", TRUE)
    /\ UNCHANGED <<req, registered, regs, supVars, regVars, sumVars, resVars, lockVars>>

\* a hub right after construction whose table holds the manifest of m1
RpcInit ==
    /\ ManagerInit
    /\ manifests = Put(EmptyTable, Manifest("m1", "m1"))
    /\ dir = [readable |-> TRUE, sub |-> [d \in Dirs |-> Absent]]
    /\ ScansIdle
    /\ SummaryIdle
    /\ ExtIdle

RpcNext ==
    \/ \E id \in RegIDs, version \in RegVersions, pid \in RegPids : Register(id, version, pid)
    \/ \E id \in RegIDs, version \in RegVersions, pid \in RegPids : HubServerRegister(id, version, pid)
    \/ Notify
    \/ Log
    \/ GetSystemInfo

RpcSpec == RpcInit /\ [][RpcNext]_vars

\* ---- the locks: Manager.mu and Registry.mu (sync.RWMutex) --------------------

\* one lock-relevant step of a call: taking or releasing mutex m (RLock, RUnlock,
\* Lock, Unlock), reading or writing the table m guards (read, write), a step that
\* blocks until something outside the hub answers (block), a system call (call)
Step(k, m) == [k |-> k, m |-> m]

\* manager.go 36-44: RLock with deferred RUnlock around the read of m.processes
IsRunningSteps ==
    <<Step("RLock", "Manager.mu"), Step("read", "Manager.mu"), Step("RUnlock", "Manager.mu")>>

\* manager.go 55-57: the idempotence check of StartModule
StartCheckSteps ==
    <<Step("RLock", "Manager.mu"), Step("read", "Manager.mu"), Step("RUnlock", "Manager.mu")>>

\* StartModule recording the handle after it released the lock
StartModulePathsRecordUnlocked ==
    {<<>>,
     StartCheckSteps,
     StartCheckSteps \o <<Step("Lock", "Manager.mu"), Step("Unlock", "Manager.mu"),
                          Step("write", "Manager.mu"), Step("block", "waitForTCP")>>,
     StartCheckSteps \o <<Step("Lock", "Manager.mu"), Step("Unlock", "Manager.mu"),
                          Step("write", "Manager.mu"), Step("block", "waitForTCP"),
                          Step("call", "Kill")>>}

\* manager.go 47-112, the paths through StartModule: a configuration error (48-53);
\* the check, then return nil (58-60) or an error of lines 62-93; check, record under
\* the write lock (95-97) and probe (99), which succeeds or times out (100-101: Kill)
StartModulePaths ==
    {<<>>,
     StartCheckSteps,
     StartCheckSteps \o <<Step("Lock", "Manager.mu"), Step("write", "Manager.mu"),
                          Step("Unlock", "Manager.mu"), Step("block", "waitForTCP")>>,
     StartCheckSteps \o <<Step("Lock", "Manager.mu"), Step("write", "Manager.mu"),
                          Step("Unlock", "Manager.mu"), Step("block", "waitForTCP"),
                          Step("call", "Kill")>>}

\* manager.go 104-109, the goroutine StartModule leaves behind: cmd.Wait(), then the
\* delete under the write lock
WaiterSteps ==
    <<Step("block", "Wait"), Step("Lock", "Manager.mu"), Step("write", "Manager.mu"),
      Step("Unlock", "Manager.mu")>>

\* manager.go 115-121: the first look of StopModule at the handle table
StopCheckSteps ==
    <<Step("Lock", "Manager.mu"), Step("read", "Manager.mu"), Step("Unlock", "Manager.mu")>>

\* StopModule keeping the write lock from its first look to its return
StopModulePathsSleepLocked ==
    {StopCheckSteps,
     <<Step("Lock", "Manager.mu"), Step("read", "Manager.mu"),
       Step("block", "tryDisconnectModule"), Step("block", "Sleep"),
       Step("read", "Manager.mu"), Step("Unlock", "Manager.mu")>>,
     <<Step("Lock", "Manager.mu"), Step("read", "Manager.mu"),
       Step("block", "tryDisconnectModule"), Step("block", "Sleep"),
       Step("read", "Manager.mu"), Step("call", "Kill"), Step("write", "Manager.mu"),
       Step("Unlock", "Manager.mu")>>}

\* manager.go 115-136, the paths through StopModule: no handle (117-120); disconnect
\* and sleep unlocked (124-125), then under the write lock again the second look, which
\* finds no handle (129-131) or kills and deletes (132-134); Unlock is deferred
StopModulePaths ==
    {StopCheckSteps,
     StopCheckSteps \o <<Step("block", "tryDisconnectModule"), Step("block", "Sleep"),
                         Step("Lock", "Manager.mu"), Step("read", "Manager.mu"),
                         Step("Unlock", "Manager.mu")>>,
     StopCheckSteps \o <<Step("block", "tryDisconnectModule"), Step("block", "Sleep"),
                         Step("Lock", "Manager.mu"), Step("read", "Manager.mu"),
                         Step("call", "Kill"), Step("write", "Manager.mu"),
                         Step("Unlock", "Manager.mu")>>}

\* registry.go 47-64, one turn of the loop of ScanModules that installs a manifest
ScanInstallSteps ==
    <<Step("call", "ReadFile"), Step("Lock", "Registry.mu"), Step("write", "Registry.mu"),
      Step("Unlock", "Registry.mu")>>

\* registry.go 36-68, the paths through ScanModules: os.ReadDir, then no, one or two
\* manifests installed
ScanModulesPaths ==
    {<<Step("call", "ReadDir")>>,
     <<Step("call", "ReadDir")>> \o ScanInstallSteps,
     <<Step("call", "ReadDir")>> \o ScanInstallSteps \o ScanInstallSteps}

\* registry.go 71-80
RegisterModuleSteps ==
    <<Step("Lock", "Registry.mu"), Step("write", "Registry.mu"), Step("Unlock", "Registry.mu")>>

\* registry.go 83-92 (ListModules) and 95-100 (GetManifest): RLock with deferred RUnlock
ListModulesSteps ==
    <<Step("RLock", "Registry.mu"), Step("read", "Registry.mu"), Step("RUnlock", "Registry.mu")>>

\* the summary handler calling IsRunning while it still holds the registry's read lock
SummaryPathsNested ==
    {ListModulesSteps,
     <<Step("RLock", "Registry.mu"), Step("read", "Registry.mu")>>
        \o IsRunningSteps \o <<Step("RUnlock", "Registry.mu")>>,
     <<Step("RLock", "Registry.mu"), Step("read", "Registry.mu")>>
        \o IsRunningSteps \o <<Step("RUnlock", "Registry.mu"), Step("block", "fetchWidgetData")>>}

\* handlers.go 43 and summary.go 103-120, the paths of the summary handler:
\* ListModules returns, then for each module IsRunning and, if it runs, fetchWidgetData
SummaryPaths ==
    {ListModulesSteps,
     ListModulesSteps \o IsRunningSteps,
     ListModulesSteps \o IsRunningSteps \o <<Step("block", "fetchWidgetData")>>,
     ListModulesSteps \o IsRunningSteps \o <<Step("block", "fetchWidgetData")>> \o IsRunningSteps}

\* the calls a goroutine can run
Functions ==
    {"IsRunning", "StartModule", "StopModule", "waiter", "ScanModules", "RegisterModule",
     "ListModules", "GetManifest", "summary"}

\* the paths through call fn
Paths(fn) ==
    CASE fn = "IsRunning" -> {IsRunningSteps}
      [] fn = "StartModule" -> StartModulePaths
      [] fn = "StopModule" -> StopModulePaths
      [] fn = "waiter" -> {WaiterSteps}
      [] fn = "ScanModules" -> ScanModulesPaths
      [] fn = "RegisterModule" -> {RegisterModuleSteps}
      [] fn = "ListModules" -> {ListModulesSteps}
      [] fn = "GetManifest" -> {ListModulesSteps}
      [] fn = "summary" -> SummaryPaths

\* the step goroutine g takes next; none when it is outside a call or about to return
NoStep == Step("", "")

NextStep(g) == IF prog[g].steps = <<>> THEN NoStep ELSE Head(prog[g].steps)

\* the mutexes goroutine g holds, for reading or for writing
Held(g) == {m \in Mutexes : mu[m].w = g \/ g \in mu[m].r}

\* goroutine g has done its next step
Advance(g) == prog' = [prog EXCEPT ![g].steps = Tail(prog[g].steps)]

\* a goroutine begins call fn and will take one of its paths
Begin(g, fn, steps) ==
    /\ prog[g] = NoCall
    /\ lockCalls < MaxLockCalls
    /\ lockCalls' = lockCalls + 1
    /\ prog' = [prog EXCEPT ![g] = [fn |-> fn, steps |-> steps]]
    /\ UNCHANGED <<mu, supVars, regVars, sumVars, req, registered, regs, rpc, resVars>>

\* sync.RWMutex.RLock: waits while a writer holds the mutex or waits for it
AcquireRead(g) ==
    /\ NextStep(g).k = "RLock"
    /\ LET m == NextStep(g).m IN
       /\ mu[m].w = ""
       /\ ~(\E h \in Goroutines : NextStep(h) = Step("Lock", m))
       /\ mu' = [mu EXCEPT ![m].r = mu[m].r \cup {g}]
    /\ Advance(g)
    /\ UNCHANGED <<lockCalls, supVars, regVars, sumVars, req, registered, regs, rpc, resVars>>

\* sync.RWMutex.RUnlock
ReleaseRead(g) ==
    /\ NextStep(g).k = "RUnlock"
    /\ mu' = [mu EXCEPT ![NextStep(g).m].r = mu[NextStep(g).m].r \ {g}]
    /\ Advance(g)
    /\ UNCHANGED <<lockCalls, supVars, regVars, sumVars, req, registered, regs, rpc, resVars>>

\* sync.RWMutex.Lock: waits until no reader and no writer holds the mutex
AcquireWrite(g) ==
    /\ NextStep(g).k = "Lock"
    /\ LET m == NextStep(g).m IN
       /\ mu[m].w = ""
       /\ mu[m].r = {}
       /\ mu' = [mu EXCEPT ![m].w = g]
    /\ Advance(g)
    /\ UNCHANGED <<lockCalls, supVars, regVars, sumVars, req, registered, regs, rpc, resVars>>

\* sync.RWMutex.Unlock
ReleaseWrite(g) ==
    /\ NextStep(g).k = "Unlock"
    /\ mu' = [mu EXCEPT ![NextStep(g).m].w = ""]
    /\ Advance(g)
    /\ UNCHANGED <<lockCalls, supVars, regVars, sumVars, req, registered, regs, rpc, resVars>>

\* a read or a write of the table a mutex guards
Access(g) ==
    /\ NextStep(g).k \in {"read", "write"}
    /\ Advance(g)
    /\ UNCHANGED <<mu, lockCalls, supVars, regVars, sumVars, req, registered, regs, rpc, resVars>>

\* the readiness probe, the disconnect RPC, the sleep, cmd.Wait or the widget fetch
\* that goroutine g is blocked in ends
Unblock(g) ==
    /\ NextStep(g).k = "block"
    /\ Advance(g)
    /\ UNCHANGED <<mu, lockCalls, supVars, regVars, sumVars, req, registered, regs, rpc, resVars>>

\* Process.Kill, os.ReadDir or os.ReadFile returns
Syscall(g) ==
    /\ NextStep(g).k = "call"
    /\ Advance(g)
    /\ UNCHANGED <<mu, lockCalls, supVars, regVars, sumVars, req, registered, regs, rpc, resVars>>

\* the call of goroutine g returns
Return(g) ==
    /\ prog[g].fn # ""
    /\ prog[g].steps = <<>>
    /\ prog' = [prog EXCEPT ![g] = NoCall]
    /\ UNCHANGED <<mu, lockCalls, supVars, regVars, sumVars, req, registered, regs, rpc, resVars>>

\* process.NewManager and registry.New: both mutexes unlocked
LockInit ==
    /\ ManagerInit
    /\ manifests = EmptyTable
    /\ dir = [readable |-> TRUE, sub |-> [d \in Dirs |-> Absent]]
    /\ ScansIdle
    /\ SummaryIdle
    /\ ExtIdle

\* the steps of goroutine g other than beginning a call
Run(g) ==
    \/ AcquireRead(g)
    \/ ReleaseRead(g)
    \/ AcquireWrite(g)
    \/ ReleaseWrite(g)
    \/ Access(g)
    \/ Unblock(g)
    \/ Syscall(g)
    \/ Return(g)

LockNext ==
    \/ \E g \in Goroutines, fn \in Functions : \E steps \in Paths(fn) : Begin(g, fn, steps)
    \/ \E g \in Goroutines : AcquireRead(g)
    \/ \E g \in Goroutines : ReleaseRead(g)
    \/ \E g \in Goroutines : AcquireWrite(g)
    \/ \E g \in Goroutines : ReleaseWrite(g)
    \/ \E g \in Goroutines : Access(g)
    \/ \E g \in Goroutines : Unblock(g)
    \/ \E g \in Goroutines : Syscall(g)
    \/ \E g \in Goroutines : Return(g)

LockSpec == LockInit /\ [][LockNext]_vars

\* the Go scheduler runs every goroutine that can run, and every external call (probe,
\* RPC, HTTP, sleep, wait, kill, file read) returns
LockFairSpec == LockSpec /\ \A g \in Goroutines : WF_vars(Run(g))

\* ---- claims ----------------------------------------------------------------

\* the handle table holds for module id a handle whose process has not been seen to exit
HoldsNonExited(id) ==
    /\ processes[id] # Nil
    /\ cmds[processes[id]].state # "exited"

\* C1: idempotent start. A StartModule(id) call whose check finds a non-exited handle
\* for id returns success at once, spawns no process and changes neither the handle
\* table nor any process, so the live processes of id are the same after the call.
\* And when one handler's two requests were the only ones, the last a start that has
\* returned, and the process of a successful start is still alive, that process is
\* the one live process of id and the one in the handle table.
C1_IdempotentStart ==
    /\ [][\A t \in Threads :
            (pc[t] = "start_check" /\ pc'[t] # "start_check"
               /\ GrpcAddr(mid[t]) # "" /\ HoldsNonExited(mid[t]))
            => /\ pc'[t] = "done" /\ result'[t] = "ok" /\ mine'[t] = Nil
               /\ processes' = processes /\ cmds' = cmds
               /\ LiveProcs(mid[t])' = LiveProcs(mid[t])]_vars
    /\ [](\A t \in Threads :
            (/\ calls = 2 /\ \A u \in Threads \ {t} : op[u] = "none"
             /\ pc[t] = "done" /\ op[t] = "start"
             /\ Len(cmds) >= 1 /\ cmds[1].id = mid[t]
             /\ cmds[1].waiter # "none" /\ Alive(1))
            => (LiveProcs(mid[t]) = {1} /\ processes[mid[t]] = 1))

\* C1 witness: one handler made two start calls in a row, the first spawned a process
\* and saw it ready, the second returned success through the idempotent branch, and
\* the process of the first is the one live process
C1_Witness ==
    \E t \in Threads :
        /\ pc[t] = "done" /\ op[t] = "start" /\ result[t] = "ok" /\ mine[t] = Nil
        /\ calls = 2 /\ Len(cmds) = 1 /\ cmds[1].waiter = "waiting"
        /\ \A u \in Threads \ {t} : op[u] = "none"
        /\ LiveProcs(mid[t]) = {processes[mid[t]]}

\* C2: one instance per module ID. In every reachable state at most one live process
\* spawned by the supervisor exists per module ID, and a live process is the one the
\* handle table refers to (or the one a StartModule is just about to record).
C2_OneInstancePerID ==
    \A id \in ModuleIDs :
        /\ Cardinality(LiveProcs(id)) <= 1
        /\ \A c \in LiveProcs(id) :
              \/ processes[id] = c
              \/ \E t \in Threads : pc[t] = "start_record" /\ mine[t] = c

\* C3: IsRunning(id) becomes true only after a StartModule(id) call has returned
\* successfully. Stated for the quiet case: when no StartModule(id) is in progress and
\* none has ever returned success (every start so far returned an error), IsRunning(id)
\* is false.
C3_RunningOnlyAfterSuccess ==
    \A id \in ModuleIDs :
        (id \notin startOk /\ ~(\E t \in Threads : InStart(t) /\ mid[t] = id))
        => ~IsRunning(id)

\* C4: while a StartModule(id) is inside its readiness window (handle recorded, probe
\* not finished) and no StopModule(id) has overlapped it, the summary entry built for id
\* has running = true.
C4_RunningInReadinessWindow ==
    \A t \in Threads :
        (pc[t] = "start_probe" /\ clean[t]) => SummaryEntry(mid[t]).running

\* C5: after StopModule(id) has returned, with no StartModule(id) overlapping or
\* following the stop call, IsRunning(id) is false.
C5_StoppedAfterStop ==
    \A t \in Threads :
        (pc[t] = "done" /\ op[t] = "stop" /\ clean[t]) => ~IsRunning(mid[t])

\* C5 witness: a stop call, not overlapped or followed by a start, has returned after
\* it found a handle and killed the live process behind it
C5_Witness ==
    \E t \in Threads :
        /\ pc[t] = "done" /\ op[t] = "stop" /\ clean[t]
        /\ \E c \in DOMAIN cmds :
              cmds[c].id = mid[t] /\ ~Alive(c) /\ cmds[c].waiter = "waiting"
        /\ processes[mid[t]] = Nil

\* C5 second witness state: the stop found the stale handle of a start whose readiness
\* probe had timed out
C5_WitnessStale ==
    \E t \in Threads :
        /\ pc[t] = "done" /\ op[t] = "stop" /\ clean[t]
        /\ \E u \in Threads \ {t} : result[u] = "not_ready" /\ mid[u] = mid[t]
        /\ processes[mid[t]] = Nil

\* C6: liveness of exit reaping. Once a process whose start succeeded (its exit waiter
\* runs) has exited or been killed, IsRunning(id) eventually is false and the summary
\* entry for id eventually has running = false, by the waiter alone.
C6_ExitEventuallyReaped ==
    \A c \in 1..MaxCmds, id \in ModuleIDs :
        (c \in DOMAIN cmds /\ cmds[c].id = id /\ cmds[c].waiter = "waiting" /\ ~Alive(c))
        ~> (~IsRunning(id) /\ ~SummaryEntry(id).running)

\* C6 witness: a process started successfully was killed out-of-band, no stop or open-ui
\* was ever requested, its waiter has removed the handle and IsRunning is false
C6_Witness ==
    \E c \in DOMAIN cmds :
        /\ cmds[c].waiter = "done" /\ cmds[c].state = "signaled"
        /\ \A t \in Threads : op[t] \in {"none", "start"}
        /\ calls = 1
        /\ ~IsRunning(cmds[c].id)

\* C7: a failed start rolls back to Absent. Whenever StartModule(id) has returned an
\* error, no handle created by that call is in the handle table.
C7_FailedStartLeavesNoHandle ==
    \A t \in Threads :
        (pc[t] = "done" /\ op[t] \in {"start", "open-ui"} /\ result[t] \notin {"ok", "none"})
        => (mine[t] = Nil \/ processes[mid[t]] # mine[t])

\* C8: readiness deadline. A StartModule that spawned a process leaves its probe with
\* success only if a TCP connect to the RPC address succeeded; otherwise it returns the
\* "not ready" error and the process it spawned has been killed.
C8_ReadinessDeadline ==
    /\ [][\A t \in Threads :
            (pc[t] = "start_probe" /\ pc'[t] # "start_probe")
            => /\ result'[t] = "ok" => Listening(GrpcAddr(mid[t]))
               /\ result'[t] # "ok" => (result'[t] = "not_ready" /\ ~Alive(mine[t])')]_vars
    /\ [](\A t \in Threads :
            /\ (result[t] = "ok" /\ mine[t] # Nil) => cmds[mine[t]].waiter # "none"
            /\ result[t] = "not_ready" => (mine[t] # Nil /\ ~Alive(mine[t])))

\* C8 witness: a start has returned "not ready" and the process it spawned is dead
C8_Witness ==
    \E t \in Threads :
        pc[t] = "done" /\ result[t] = "not_ready" /\ mine[t] # Nil /\ ~Alive(mine[t])

\* C9: after a readiness timeout the handle of the killed process is eventually removed
\* without a stop call, so IsRunning(id) eventually is false after the failed start.
C9_TimeoutHandleReaped ==
    \A t \in Threads :
        (pc[t] = "done" /\ result[t] = "not_ready") ~> ~IsRunning(mid[t])

\* C10: the exit waiter of a process removes only that process's own handle: a waiter
\* step never removes a handle that refers to a different, still-live process.
C10_WaiterRemovesOwnHandle ==
    [][\A c \in DOMAIN cmds :
          (cmds[c].waiter = "reaping" /\ cmds'[c].waiter = "done")
          => \A id \in ModuleIDs :
                (processes[id] # Nil /\ processes[id] # c /\ Alive(processes[id]))
                => processes'[id] = processes[id]]_vars

\* C11: StopModule(id) finding no handle for id returns success at once and changes
\* nothing: the handle table and every process are as before, and the call does not
\* enter the disconnect / grace-sleep / kill phase.
C11_StopAbsentIsNoOp ==
    [][\A t \in Threads :
          (pc[t] = "stop_check" /\ pc'[t] # "stop_check" /\ processes[mid[t]] = Nil)
          => /\ pc'[t] # "stop_kill"
             /\ op[t] = "stop" => (pc'[t] = "done" /\ result'[t] = "ok")
             /\ op[t] = "open-ui" => pc'[t] = "start_check"
             /\ processes' = processes /\ cmds' = cmds]_vars

\* C11 witness: a stop request for a module that was never started has returned success
C11_Witness ==
    \E t \in Threads :
        /\ pc[t] = "done" /\ op[t] = "stop" /\ result[t] = "ok"
        /\ calls = 1 /\ cmds = <<>> /\ processes[mid[t]] = Nil

\* C12: open-ui never results in two processes for one module. Whenever an open-ui(id)
\* request has completed, at most one live process spawned for id exists.
C12_OpenUIAtMostOneProcess ==
    \A t \in Threads :
        (pc[t] = "done" /\ op[t] = "open-ui") => Cardinality(LiveProcs(mid[t])) <= 1

\* the remote side's answer made fetchWidgetData return an error
FetchFailed(m, o) ==
    m.grpcAddr = "" \/ o.dial = "err" \/ o.widgets \in {"err_timeout", "err_refused"}

\* C13: the summary is failure-isolated. BuildModuleSummaries returns exactly one
\* summary per manifest, in the order of the list, whatever the fetches did; an entry
\* once appended is never changed or dropped; and a fetch that fails for a running
\* module appends an entry for that module with running = true and only the error
\* field set.
C13_SummaryFailureIsolated ==
    /\ [](/\ sumPc = "done" => Len(summaries) = Len(modules)
          /\ sumPc \in {"loop", "fetching"} => Len(summaries) = sumI - 1
          /\ \A k \in DOMAIN summaries :
                /\ k \in DOMAIN modules /\ summaries[k].manifest = modules[k]
                /\ summaries[k].error # ""
                   => (summaries[k].running /\ summaries[k].widgetType = ""
                       /\ summaries[k].payload = "nil"))
    /\ [][/\ sumPc # "idle"
             => \A k \in DOMAIN summaries :
                   k \in DOMAIN summaries' /\ summaries'[k] = summaries[k]
          /\ (sumPc = "fetching" /\ sumPc' # "fetching" /\ FetchFailed(modules[sumI], fetched'))
             => /\ Len(summaries') = Len(summaries) + 1
                /\ summaries'[sumI].manifest = modules[sumI]
                /\ summaries'[sumI].running
                /\ summaries'[sumI].error # ""
                /\ summaries'[sumI].widgetType = "" /\ summaries'[sumI].payload = "nil"]_vars

\* C13 witness: a summary of two running modules is complete; the fetch for the first
\* failed, the second has its widget type and payload
C13_Witness ==
    /\ sumPc = "done" /\ Len(modules) >= 2
    /\ \E k, j \in DOMAIN summaries :
          /\ k < j
          /\ summaries[k].running /\ summaries[k].error = "err_timeout"
          /\ summaries[j].running /\ summaries[j].error = "" /\ summaries[j].payload = "data"

\* C14: for a module that is not running the loop appends an entry with running = false,
\* no widget type, no payload and no error, and does not call fetchWidgetData for it.
C14_NotRunningEntry ==
    /\ [](\A k \in DOMAIN summaries :
            ~summaries[k].running
            => summaries[k] = ModuleSummary(modules[k], FALSE, "", "nil", ""))
    /\ [][(/\ sumPc = "loop" /\ sumI <= Len(modules)
           /\ ~IsRunning(modules[sumI].id)
           /\ <<sumPc, sumI>>' # <<sumPc, sumI>>)
          => /\ sumPc' = "loop"
             /\ fetched' = fetched
             /\ sumI' = sumI + 1
             /\ summaries' = Append(summaries,
                                ModuleSummary(modules[sumI], FALSE, "", "nil", ""))]_vars

\* C14 witness: a summary is complete that holds the entry of a startable module which
\* was not running, and no remote call was made for the batch
C14_Witness ==
    /\ sumPc = "done" /\ fetched = NoRemote
    /\ \E k \in DOMAIN summaries :
          /\ modules[k].grpcAddr # ""
          /\ summaries[k] = ModuleSummary(modules[k], FALSE, "", "nil", "")

\* C15: the remote calls of one batch are independent per module. While the fetch for
\* one module is in progress, the fetch for every other running module of the batch
\* that has not been fetched yet can start.
C15_FetchesIndependent ==
    \A k \in DOMAIN modules :
        (sumPc = "fetching" /\ k > sumI /\ IsRunning(modules[k].id))
        => ENABLED SummaryFetchStart(k)

\* a step of fetchWidgetData after GetWidgets failed for the answer o
SecondaryFailed(o) ==
    \/ o.info \in {"err", "no_url"}
    \/ o.endpoint = ""
    \/ o.http \in {"req_err", "do_err", "non200", "read_err"}

\* C16: graceful degradation of the secondary fetch. When GetWidgets returned a
\* non-empty widget list and a later step failed (GetInfo, empty UI URL, empty data
\* endpoint, HTTP request, status other than 200, body read), the entry appended has
\* the widget type of the first widget (its id, or its title when the id is empty),
\* no payload and an empty error field.
C16_SecondaryFetchDegrades ==
    [][(/\ sumPc = "fetching" /\ sumPc' # "fetching"
        /\ fetched'.widgets = "one" /\ SecondaryFailed(fetched'))
       => summaries' = Append(summaries,
             ModuleSummary(modules[sumI], TRUE,
                 IF fetched'.id # "" THEN fetched'.id ELSE fetched'.title, "nil", ""))]_vars

\* C16 witness: the last fetch got a widget with an id, then the HTTP endpoint answered
\* a status other than 200; the entry has the widget type and neither payload nor error
C16_Witness ==
    /\ sumPc = "done" /\ Len(summaries) >= 1
    /\ fetched.widgets = "one" /\ fetched.id = "w" /\ fetched.http = "non200"
    /\ \E k \in DOMAIN summaries :
          /\ summaries[k].running /\ summaries[k].widgetType = "w"
          /\ summaries[k].payload = "nil" /\ summaries[k].error = ""

\* the folders of the modules directory that hold a valid manifest
ValidDirs == {d \in Dirs : dir.sub[d].kind = "json" /\ dir.sub[d].id # ""}

\* the folders without manifest.json, with invalid JSON or with an empty ID
InvalidDirs ==
    {d \in Dirs : \/ dir.sub[d].kind \in {"no_manifest", "bad_json"}
                  \/ dir.sub[d].kind = "json" /\ dir.sub[d].id = ""}

\* handler s leaves ScanModules through the end of the loop
ScanCompletes(s) == scans[s].pc = "loop" /\ scans'[s].pc = "done"

\* C17: scan of a directory into an empty store. A scan that starts from the empty
\* table, with no other scan and no change of the directory overlapping it, over
\* folders whose valid manifests have distinct IDs, ends without error with exactly
\* those manifests in the table, one per valid folder, wherever the invalid folders
\* stand among them.
C17_ScanFromEmpty ==
    [][\A s \in Scanners :
          /\ (scans[s].pc = "readdir" /\ scans'[s].pc # "readdir" /\ dir.readable)
             => scans'[s].pc = "loop"
          /\ (/\ ScanCompletes(s) /\ scans[s].quiet /\ scans[s].before = EmptyTable
              /\ \A d, e \in ValidDirs : d # e => dir.sub[d].id # dir.sub[e].id)
             => /\ scans'[s].status = 200 /\ scans'[s].body.error = ""
                /\ DOMAIN manifests' = {dir.sub[d].id : d \in ValidDirs}
                /\ Cardinality(DOMAIN manifests') = Cardinality(ValidDirs)
                /\ \A d \in ValidDirs :
                      manifests'[dir.sub[d].id] = Manifest(dir.sub[d].id, dir.sub[d].grpcAddr)
                /\ scans'[s].body.modules = manifests']_vars

\* C17 witness: the only scan so far has ended with status 200 over a directory whose
\* first folder is invalid and whose second folder holds a valid manifest, which is
\* the one entry of the table
C17_Witness ==
    \E s \in Scanners :
        /\ scans[s].pc = "done" /\ scans[s].status = 200 /\ scans[s].quiet
        /\ scanCalls = 1 /\ dirChanges = 0
        /\ DirOrder[1] \in InvalidDirs /\ DirOrder[2] \in ValidDirs
        /\ DOMAIN manifests = {dir.sub[DirOrder[2]].id}

\* C18: staleness by omission. No step removes an ID from the manifest table; an
\* entry changes only in the step in which a scan installs a manifest it read with that
\* ID; and a scan that finds no manifest for an ID leaves that entry as it was.
C18_StaleByOmission ==
    [][/\ \A id \in DOMAIN manifests :
             /\ id \in DOMAIN manifests'
             /\ manifests'[id] # manifests[id]
                => \E s \in Scanners :
                      /\ scans[s].pc = "install" /\ scans'[s].pc = "loop"
                      /\ scans[s].m.id = id /\ manifests'[id] = scans[s].m
       /\ \A s \in Scanners :
             (ScanCompletes(s) /\ scans[s].quiet)
             => \A id \in DOMAIN scans[s].before :
                   (\A k \in DOMAIN scans[s].found : scans[s].found[k].id # id)
                   => (id \in DOMAIN manifests' /\ manifests'[id] = scans[s].before[id])]_vars

\* C18 witness: one handler has scanned twice; the second scan ended with status 200
\* and found no manifest with ID m1, no folder holds m1 any more, and the table still
\* has the entry for m1 from the first scan
C18_Witness ==
    \E s \in Scanners :
        /\ scans[s].pc = "done" /\ scans[s].status = 200 /\ scans[s].quiet
        /\ \A t \in Scanners \ {s} : scans[t].pc = "idle"
        /\ scanCalls = 2 /\ dirChanges = 1
        /\ \A k \in DOMAIN scans[s].found : scans[s].found[k].id # "m1"
        /\ \A d \in Dirs : dir.sub[d].id # "m1"
        /\ \E d \in Dirs : dir.sub[d] = Absent
        /\ "m1" \in DOMAIN manifests

\* the last manifest of seq with ID k
LastFound(seq, k) ==
    seq[CHOOSE i \in DOMAIN seq :
            seq[i].id = k /\ \A j \in DOMAIN seq : seq[j].id = k => j <= i]

\* the table tab after the manifests of seq were stored into it one by one
Override(tab, seq) ==
    LET ids == {seq[i].id : i \in DOMAIN seq} IN
    [k \in DOMAIN tab \cup ids |-> IF k \in ids THEN LastFound(seq, k) ELSE tab[k]]

\* C19 as stated: last-scan-wins without merge. When a scan completes (no other scan
\* and no change of the directory overlapping it) the table holds exactly the
\* manifests that scan found; an entry whose ID the scan omitted is gone.
C19_LastScanWins ==
    [][\A s \in Scanners :
          (ScanCompletes(s) /\ scans[s].quiet)
          => manifests' = Override(EmptyTable, scans[s].found)]_vars

\* C19, amended: when a scan completes (no other scan and no change of the directory
\* overlapping it) the table is the table the scan started from with every manifest
\* the scan found stored over the entry of its ID as a whole; entries whose ID the
\* scan omitted are kept as they were.
C19_ScanOverridesFound ==
    [][\A s \in Scanners :
          (ScanCompletes(s) /\ scans[s].quiet)
          => manifests' = Override(scans[s].before, scans[s].found)]_vars

\* C19 witness: two scans one after the other; the first answered with m1 listening on
\* an address, the second found m1 without grpc_addr, and the table now holds m1 as
\* the second scan read it
C19_Witness ==
    \E s, t \in Scanners :
        /\ s # t
        /\ scans[t].pc = "done" /\ scans[t].status = 200 /\ scans[t].quiet
        /\ "m1" \in DOMAIN scans[t].body.modules
        /\ scans[t].body.modules["m1"] = Manifest("m1", "m1")
        /\ scans[s].pc = "done" /\ scans[s].status = 200 /\ scans[s].quiet
        /\ \E k \in DOMAIN scans[s].found : scans[s].found[k] = Manifest("m1", "")
        /\ "m1" \in DOMAIN manifests /\ manifests["m1"] = Manifest("m1", "")

\* C20: ScanModules returns an error if and only if the modules directory cannot be
\* read. Then the table is left unchanged and the scan route answers 500 with an error
\* body; no later step of a scan produces an error; and the handler that answered 500
\* takes the next request like any other.
C20_ScanErrorIffUnreadable ==
    /\ [][\A s \in Scanners :
             /\ (scans[s].pc = "readdir" /\ scans'[s].pc # "readdir")
                => IF dir.readable
                   THEN scans'[s].pc = "loop" /\ scans'[s].status = 0
                   ELSE /\ scans'[s].pc = "done" /\ scans'[s].status = 500
                        /\ scans'[s].body.error # ""
                        /\ manifests' = manifests
             /\ (scans'[s].status = 500 /\ scans[s].status # 500)
                => (scans[s].pc = "readdir" /\ ~dir.readable)]_vars
    /\ [](\A s \in Scanners :
             scans[s].pc = "done"
             => /\ scans[s].status \in {200, 500}
                /\ scans[s].status = 500 <=> scans[s].body.error # ""
                /\ scanCalls < MaxScans => ENABLED HandleScan(s))

\* C20 witness: a scan of the unreadable directory was answered with 500 and left the
\* table empty; the directory became readable and a scan requested after that was
\* answered with 200 and filled the table
C20_Witness ==
    \E s, t \in Scanners :
        /\ scans[s].pc = "done" /\ scans[s].status = 500
        /\ scans[t].pc = "done" /\ scans[t].status = 200 /\ scans[t].quiet
        /\ dirChanges = 1 /\ dir.readable
        /\ DOMAIN manifests # {}

\* the state of module id in the supervisor's state machine
ModState(id) ==
    IF processes[id] = Nil THEN "Absent"
    ELSE IF \E t \in Threads : pc[t] = "stop_kill" /\ mid[t] = id THEN "Stopping"
    ELSE IF \E t \in Threads : pc[t] = "start_probe" /\ mine[t] = processes[id] THEN "Starting"
    ELSE "Running"

\* at most one request for module id is being served
Unshared(id) == Cardinality({t \in Threads : (InStart(t) \/ InStop(t)) /\ mid[t] = id}) <= 1

\* C27: per module ID the supervisor follows Absent -> Starting -> Running -> Stopping
\* -> Absent, with Starting -> Absent on a failed start and Running -> Absent on process
\* exit as the only other transitions. Stated for the steps in which at most one
\* request for the ID is being served: the state changes only along these edges, a
\* StartModule that leaves Starting with an error leaves the module Absent, and a
\* handle is removed only by a stop or after the process it refers to has exited.
C27_LifecycleStateMachine ==
    [][\A id \in ModuleIDs :
          (Unshared(id) /\ Unshared(id)')
          => /\ <<ModState(id), ModState(id)'>> \in
                   {<<"Absent", "Absent">>, <<"Starting", "Starting">>,
                    <<"Running", "Running">>, <<"Stopping", "Stopping">>,
                    <<"Absent", "Starting">>, <<"Starting", "Running">>,
                    <<"Running", "Stopping">>, <<"Stopping", "Absent">>,
                    <<"Starting", "Absent">>, <<"Running", "Absent">>}
             /\ \A t \in Threads :
                   (pc[t] = "start_probe" /\ pc'[t] = "done" /\ mid[t] = id /\ result'[t] # "ok")
                   => ModState(id)' = "Absent"
             /\ (processes[id] # Nil /\ processes'[id] = Nil)
                => \/ \E t \in Threads : pc[t] = "stop_kill" /\ mid[t] = id
                   \/ ~Alive(processes[id])]_vars

\* C28: IsRunning(id) is true if and only if the handle table holds a handle for id
\* whose process has not been observed to exit (cmd.Wait has not returned for it).
C28_IsRunningIffNotObservedExit ==
    \A id \in ModuleIDs :
        IsRunning(id) <=> (processes[id] # Nil /\ cmds[processes[id]].state = "nil")

\* C29: start bookkeeping precedes any concurrent stop. Once StartModule(id) has
\* launched its process, a StopModule(id) that looks at the handle table while that
\* process is alive finds a handle and does not return as a no-op.
C29_StopSeesLaunchedProcess ==
    [][\A u \in Threads :
          (/\ pc[u] = "stop_check" /\ pc'[u] # "stop_check"
           /\ \E t \in Threads \ {u} :
                 /\ mid[t] = mid[u] /\ mine[t] # Nil /\ InStart(t)
                 /\ Alive(mine[t]))
          => pc'[u] = "stop_kill"]_vars

\* C30: two-phase stop. A StopModule that finds a handle kills nothing at once: it
\* goes through the disconnect attempt and the grace sleep and then reads the handle
\* table again. If a handle is present then, exactly its process is killed and the
\* handle removed; if none is present, no process and no handle is touched. Either
\* way StopModule returns success.
C30_TwoPhaseStop ==
    [][\A t \in Threads :
          /\ (pc[t] = "stop_check" /\ pc'[t] # "stop_check" /\ processes[mid[t]] # Nil)
             => (pc'[t] = "stop_kill" /\ cmds' = cmds /\ processes' = processes)
          /\ (pc[t] = "stop_kill" /\ pc'[t] # "stop_kill")
             => /\ op[t] = "stop" => (pc'[t] = "done" /\ result'[t] = "ok")
                /\ IF processes[mid[t]] = Nil
                   THEN cmds' = cmds /\ processes' = processes
                   ELSE /\ cmds'[processes[mid[t]]].status # "running"
                        /\ processes' = [processes EXCEPT ![mid[t]] = Nil]
                        /\ \A c \in DOMAIN cmds :
                              c # processes[mid[t]] => cmds'[c] = cmds[c]]_vars

\* C30 witness: a stop request found the handle of a started module and is in its
\* grace period; nobody killed the process, it exited on its own, and its exit waiter
\* has already removed the handle the stop is about to read again
C30_Witness ==
    \E t \in Threads :
        /\ pc[t] = "stop_kill" /\ op[t] = "stop" /\ processes[mid[t]] = Nil
        /\ calls = 2 /\ \A u \in Threads \ {t} : op[u] = "none"
        /\ Len(cmds) = 1 /\ cmds[1].id = mid[t]
        /\ cmds[1].state = "exited" /\ cmds[1].waiter = "done"

\* handler t has received a POST for a lifecycle action of a module
LifecyclePost(r) ==
    /\ r.verb = "POST" /\ Len(r.parts) = 2
    /\ r.parts[2] \in {"start", "open-ui", "stop"}

\* C22: a start, open-ui or stop command for a module ID that is not in the manifest
\* table is answered 404 with an error field, and serving it changes neither the
\* handle table nor any process.
C22_UnknownModuleIs404 ==
    [][\A t \in Threads :
          (/\ pc[t] = "idle" /\ pc'[t] # "idle"
           /\ LifecyclePost(req'[t])
           /\ req'[t].parts[1] \notin DOMAIN manifests)
          => /\ pc'[t] = "done"
             /\ RouteResponse(result'[t]).status = 404
             /\ RouteResponse(result'[t]).error # ""
             /\ processes' = processes
             /\ cmds' = cmds]_vars

\* C22 witness: a start command for m1 was answered while the registry has no manifest
\* of m1
C22_Witness ==
    \E t \in Threads :
        /\ pc[t] = "done" /\ LifecyclePost(req[t]) /\ req[t].parts = <<"m1", "start">>
        /\ "m1" \notin DOMAIN manifests
        /\ result[t] = "module_not_found"

\* C23: StartModule given a manifest with an empty id or an empty RPC address returns
\* a configuration error as its first step, whatever the handle table holds: it
\* spawns no process and changes no handle.
C23_ConfigErrorFirst ==
    [][\A t \in Threads :
          (/\ pc[t] = "start_check" /\ pc'[t] # "start_check"
           /\ (mid[t] = "" \/ manifests[mid[t]].grpcAddr = ""))
          => /\ pc'[t] = "done"
             /\ result'[t] = "config_error"
             /\ processes' = processes
             /\ cmds' = cmds]_vars

\* C23 witness: a start request was refused with the configuration error while the
\* handle table holds a handle of a live process of that module
C23_Witness ==
    \E t \in Threads :
        /\ pc[t] = "done" /\ op[t] = "start" /\ result[t] = "config_error"
        /\ processes[mid[t]] # Nil /\ Alive(processes[mid[t]])

\* the requests that have been answered, each with its response; a scan has failed
\* when the modules directory cannot be read
Answered ==
    {[r |-> req[t], resp |-> RouteResponse(result[t]), kind |-> "lifecycle",
      failed |-> result[t] # "ok"] :
        t \in {u \in Threads : pc[u] = "done" /\ req[u].verb # ""}}
    \cup
    {[r |-> req[s], kind |-> "scan", failed |-> ~dir.readable,
      resp |-> Response(scans[s].status, scans[s].body.error, scans[s].body.ok)] :
        s \in {u \in Scanners : scans[u].pc = "done" /\ req[u].verb # ""}}

\* the request names no lifecycle command of a known module
NotFound(a) ==
    /\ a.kind = "lifecycle"
    /\ (~LifecyclePost(a.r) \/ a.r.parts[1] \notin DOMAIN manifests)

C21_ReadersSeeWholeManifests ==
    /\ [](\A id \in {"", "m1", "m2", "m3"} :
             GetManifest(id).ok => (id # "" /\ GetManifest(id).m.id = id))
    /\ [](\A l \in Listings(manifests) : \A i \in DOMAIN l :
             l[i].id # "" /\ GetManifest(l[i].id).m = l[i])
    /\ [][\A k \in DOMAIN manifests' :
             (k \notin DOMAIN manifests \/ manifests'[k] # manifests[k])
             => \E s \in Scanners :
                   /\ scans[s].pc = "install"
                   /\ scans[s].m = manifests'[k] /\ scans[s].m.id = k
                   /\ scans[s].found[Len(scans[s].found)] = scans[s].m]_vars

\* C21 witness: the table holds a manifest of m1 that a reader can get while a second
\* scan is about to replace it by a different manifest of m1, and a registration has
\* been served in between
C21_Witness ==
    /\ GetManifest("m1").ok
    /\ Len(regs) > 0
    /\ \E s \in Scanners :
          /\ scans[s].pc = "install" /\ scans[s].m.id = "m1"
          /\ scans[s].m # GetManifest("m1").m
          /\ \E u \in Scanners \ {s} : Scanning(u)

\* the registration table that results from the Register calls of log, each
\* overwriting the earlier ones for its ID
LastWrites(log) ==
    [k \in {log[i].id : i \in DOMAIN log} |->
        log[CHOOSE i \in DOMAIN log :
               /\ log[i].id = k
               /\ \A j \in DOMAIN log : log[j].id = k => j <= i]]

\* C24: RegisterModule(id, version, pid) records the registration of id, the last
\* write winning; it can be served whether or not the table has a manifest of id, and
\* it changes neither the manifest table nor any scan; a step of a scan or an upload
\* never changes the registration table.
C24_RegistrationFrame ==
    /\ [](registered = LastWrites(regs))
    /\ [](Len(regs) < MaxRegs
            => \A id \in RegIDs, version \in RegVersions, pid \in RegPids :
                  ENABLED Register(id, version, pid))
    /\ [][regs' # regs => (manifests' = manifests /\ scans' = scans /\ dir' = dir)]_vars
    /\ [][(scans' # scans \/ manifests' # manifests) => registered' = registered]_vars

\* C24 witness: m3, of which the registry has no manifest, registered twice with
\* different versions, the second one being the registration on record, after a scan
\* has filled the manifest table
C24_Witness ==
    /\ Len(regs) = 2 /\ regs[1].id = "m3" /\ regs[2].id = "m3"
    /\ regs[1].version # regs[2].version
    /\ registered["m3"] = regs[2]
    /\ DOMAIN manifests # {} /\ "m3" \notin DOMAIN manifests

\* C26: every error raised while serving an operation is returned to its caller: a
\* request during which an error was raised is answered with an error status and
\* that error in the body.
C26_ErrorsReturned ==
    \A s \in Scanners :
        (scans[s].pc = "done" /\ scans[s].raised # "")
        => (scans[s].status >= 400 /\ scans[s].body.error = scans[s].raised)

\* C37: every ModuleSummary produced satisfies: running = false implies no widget
\* type, no payload and no error; an error implies running = true and no widget type
\* and no payload; a payload implies no error and comes from a fetch in which
\* GetWidgets succeeded with a non-empty list. The summaries stand in the order of
\* the input manifest list, each with its input manifest, one per manifest at the end.
C37_SummaryShape ==
    /\ [](/\ Len(summaries) <= Len(modules)
          /\ sumPc = "done" => Len(summaries) = Len(modules)
          /\ \A k \in DOMAIN summaries :
                LET e == summaries[k] IN
                /\ e.manifest = modules[k]
                /\ ~e.running => (e.widgetType = "" /\ e.payload = "nil" /\ e.error = "")
                /\ e.error # "" => (e.running /\ e.widgetType = "" /\ e.payload = "nil")
                /\ e.payload # "nil" => (e.running /\ e.error = ""))
    /\ [][(Len(summaries') = Len(summaries) + 1 /\ summaries'[Len(summaries')].payload # "nil")
          => (sumPc = "fetching" /\ fetched'.dial = "ok" /\ fetched'.widgets = "one")]_vars

\* C37 witness: a complete summary of three modules holding an entry of a module that
\* was not running, an entry with an error and an entry with a payload
C37_Witness ==
    /\ sumPc = "done" /\ Len(summaries) = 3
    /\ \E i, j, k \in DOMAIN summaries :
          /\ ~summaries[i].running
          /\ summaries[j].error # ""
          /\ summaries[k].payload = "data"

\* C34: whenever StartModule(id) returns success and no StopModule(id) has
\* overlapped the call, the handle table refers at that moment to a live process of
\* id; in particular after an earlier start of id failed its readiness probe.
C34_StartSuccessMeansLive ==
    [][\A t \in Threads :
          (/\ InStart(t) /\ pc'[t] = "done" /\ result'[t] = "ok" /\ clean[t])
          => /\ processes'[mid[t]] # Nil
             /\ cmds'[processes'[mid[t]]].id = mid[t]
             /\ cmds'[processes'[mid[t]]].status = "running"]_vars

\* the manifests the scan of handler s has read from the directory so far
Found(s) == {scans[s].found[i] : i \in DOMAIN scans[s].found}

\* C38: a scan is atomic per manifest, not as a whole. While a scan runs with no other
\* scan and no change of the directory overlapping it, whatever ListModules returns
\* holds for every ID either the value stored before the scan or a value the scan
\* installs, and holds every ID stored before the scan; when two scans, one per
\* handler, have both ended, every ID either of them found has the value one of them
\* wrote.
C38_ScanAtomicPerManifest ==
    /\ \A s \in Scanners :
          (Scanning(s) /\ scans[s].quiet)
          => /\ DOMAIN scans[s].before \subseteq DOMAIN manifests
             /\ \A l \in Listings(manifests) : \A i \in DOMAIN l :
                   \/ l[i].id \in DOMAIN scans[s].before /\ l[i] = scans[s].before[l[i].id]
                   \/ l[i] \in Found(s)
    /\ (scanCalls = 2 /\ \A s \in Scanners : scans[s].pc = "done" /\ scans[s].status = 200)
       => \A id \in {m.id : m \in UNION {Found(s) : s \in Scanners}} :
             /\ id \in DOMAIN manifests
             /\ manifests[id] \in UNION {Found(s) : s \in Scanners}

\* C38 witness: a scan running alone has installed one of two manifests it finds and
\* not yet the other: a listing taken now holds the first and lacks the second
C38_Witness ==
    \E s \in Scanners :
        /\ Scanning(s) /\ scans[s].quiet /\ scans[s].pc = "install"
        /\ Cardinality(Found(s)) = 2
        /\ \E m \in Found(s) : m.id \in DOMAIN manifests /\ manifests[m.id] = m
        /\ scans[s].m.id \notin DOMAIN manifests

\* C39: open-ui is not atomic. The request always runs StopModule first and goes on
\* to StartModule whatever StopModule did; a process StopModule killed stays dead;
\* and when StartModule then fails the request is answered 400, the process the
\* failed start may have launched is dead as well, and nothing is restored.
C39_OpenUINotAtomic ==
    [][\A t \in Threads :
          /\ (pc[t] = "idle" /\ pc'[t] # "idle" /\ LifecyclePost(req'[t])
              /\ req'[t].parts[2] = "open-ui" /\ GetManifest(req'[t].parts[1]).ok)
             => (pc'[t] = "stop_check" /\ op'[t] = "open-ui")
          /\ (op[t] = "open-ui" /\ InStop(t) /\ ~InStop(t)')
             => /\ pc'[t] = "start_check"
                /\ (pc[t] = "stop_kill" /\ processes[mid[t]] # Nil)
                   => (cmds'[processes[mid[t]]].status # "running"
                       /\ processes'[mid[t]] = Nil)
          /\ \A c \in DOMAIN cmds : cmds[c].status # "running" => cmds'[c].status # "running"
          /\ (op[t] = "open-ui" /\ InStart(t) /\ pc'[t] = "done" /\ result'[t] # "ok")
             => /\ RouteResponse(result'[t]).status = 400
                /\ RouteResponse(result'[t]).error # ""
                /\ mine[t] # Nil => cmds'[mine[t]].status # "running"]_vars

\* C39 witness: an open-ui request for the running module m1 was answered with an
\* error of StartModule; the process that was running is dead and m1 has no handle
C39_Witness ==
    \E t \in Threads :
        /\ pc[t] = "done" /\ op[t] = "open-ui" /\ mid[t] = "m1"
        /\ result[t] \in {"config_error", "exe_not_found", "spawn_error"}
        /\ Len(cmds) = 1 /\ cmds[1].id = "m1" /\ cmds[1].status # "running"
        /\ processes["m1"] = Nil
        /\ \A u \in Threads \ {t} : pc[u] = "idle"

\* the handlers whose call launched process c; a handler of RouteSpec serves one
\* request, so its op and mine stay what they were at the launch
Launchers(c) == {u \in Threads : mine[u] = c}

\* C40: whenever an open-ui request returns success, the live process recorded for
\* its module was launched with the show-UI flag set and auto-connect off, and a
\* process launched by the start command has show-UI off and auto-connect on, also
\* when a start of the same module runs concurrently.
C40_OpenUIProcessShowsUI ==
    [][\A t \in Threads :
          /\ (pc[t] = "start_spawn" /\ pc'[t] = "start_record" /\ op[t] = "start")
             => Env(t) = buildModuleEnv(FALSE, TRUE)
          /\ (/\ op[t] = "open-ui" /\ InStart(t) /\ pc'[t] = "done" /\ result'[t] = "ok"
              /\ processes'[mid[t]] # Nil
              /\ cmds'[processes'[mid[t]]].status = "running")
             => \E u \in Launchers(processes'[mid[t]]) : Env(u) = buildModuleEnv(TRUE, FALSE)]_vars

\* the call recorded in resolved found nothing at the module-local path and, the
\* module being the companion, nothing at the repository root, but a build artifact
\* under build/bin or bin
FallsBackToBuild ==
    /\ resolved.exeName # "" /\ resolved.id = CompanionID
    /\ ~FileExists(ModuleCandidate(resolved.id, resolved.exeName))
    /\ ~FileExists(RootCandidate(resolved.exeName))
    /\ FileExists(BuildCandidate(resolved.exeName)) \/ FileExists(BinCandidate(resolved.exeName))

\* C31: the module-local path is chosen whenever that file exists; a fallback location
\* is returned only for the companion module ID and only when the module-local file is
\* missing; and with requireRelease set a resolution that would fall back to a build
\* location is rejected with the "release build not found" error.
C31_ExecutableResolution ==
    /\ (resolved.exeName # "" /\ FileExists(ModuleCandidate(resolved.id, resolved.exeName)))
       => (resolved.path = ModuleCandidate(resolved.id, resolved.exeName) /\ resolved.err = "")
    /\ (resolved.path # <<>> /\ resolved.path # ModuleCandidate(resolved.id, resolved.exeName))
       => /\ resolved.id = CompanionID
          /\ ~FileExists(ModuleCandidate(resolved.id, resolved.exeName))
    /\ (resolved.requireRelease /\ FallsBackToBuild)
       => (resolved.path = <<>> /\ resolved.err = "release build not found")

\* C32: the inbound Register RPC always answers success and stores a registration
\* whose id, version and process id are the ones the calling module reported; Notify,
\* Log and GetSystemInfo always succeed and change neither the manifest table nor the
\* registration table.
C32_InboundRpc ==
    /\ [][\A id \in RegIDs, version \in RegVersions, pid \in RegPids :
             Register(id, version, pid)
             => (rpc'.ok /\ registered'[id] = RegisteredEntry(id, version, pid))]_vars
    /\ [][(Notify \/ Log \/ GetSystemInfo)
             => (rpc'.ok /\ manifests' = manifests /\ registered' = registered)]_vars

\* C33: lock discipline. Every write of the handle table (the insert of StartModule,
\* the delete of StopModule, the delete of the exit waiter) and every write of the
\* registry's tables is made by the goroutine holding the write lock of the guarding
\* mutex, every read by a goroutine holding at least the read lock, and each mutex is
\* multiple-reader/single-writer: while it is held for writing nobody holds it for
\* reading.
C33_LockDiscipline ==
    /\ \A g \in Goroutines :
          /\ NextStep(g).k = "write" => mu[NextStep(g).m].w = g
          /\ NextStep(g).k = "read" => NextStep(g).m \in Held(g)
    /\ \A m \in Mutexes : mu[m].w # "" => mu[m].r = {}

\* C33 witness: the exit waiter is about to delete under the write lock of Manager.mu
\* while a StartModule waits to read the handle table
C33_Witness ==
    \E g, h \in Goroutines :
        /\ prog[g].fn = "waiter" /\ NextStep(g) = Step("write", "Manager.mu")
        /\ mu["Manager.mu"].w = g
        /\ prog[h].fn = "StartModule" /\ NextStep(h) = Step("RLock", "Manager.mu")

\* C35: the supervisor never holds its lock across a blocking step (readiness probe,
\* disconnect RPC, grace sleep, wait for process exit): a blocked goroutine holds no
\* mutex; while one goroutine is blocked, another waiting for Manager.mu can take it;
\* and a goroutine holding a mutex can always take its next step, which is not a
\* blocking one, so it completes.
C35_NoLockAcrossBlocking ==
    /\ \A g \in Goroutines : NextStep(g).k = "block" => Held(g) = {}
    /\ \A g \in Goroutines : \A h \in Goroutines \ {g} :
          (NextStep(g).k = "block" /\ NextStep(h).k \in {"RLock", "Lock"}
              /\ NextStep(h).m = "Manager.mu")
          => ENABLED (AcquireRead(h) \/ AcquireWrite(h))
    /\ \A g \in Goroutines :
          Held(g) # {}
          => /\ NextStep(g).k \in {"read", "write", "call", "RUnlock", "Unlock"}
             /\ ENABLED (Access(g) \/ Syscall(g) \/ ReleaseRead(g) \/ ReleaseWrite(g))

\* C35 witness: a StopModule sleeps in its grace period while a StartModule of the
\* other goroutine holds the write lock of Manager.mu
C35_Witness ==
    \E g, h \in Goroutines :
        /\ prog[g].fn = "StopModule" /\ NextStep(g) = Step("block", "Sleep")
        /\ prog[h].fn = "StartModule" /\ mu["Manager.mu"].w = h

\* C36: deadlock freedom. No goroutine ever holds the registry lock and the supervisor
\* lock together, a call that returns holds no lock, and every call begun (scan,
\* register, list, get, IsRunning, start, stop, exit waiter, summary) returns, given
\* that every external call returns.
C36_DeadlockFreedom ==
    /\ [](\A g \in Goroutines : Cardinality(Held(g)) <= 1)
    /\ [](\A g \in Goroutines : prog[g].steps = <<>> => Held(g) = {})
    /\ \A g \in Goroutines : (prog[g].fn # "") ~> (prog[g] = NoCall)

\* C36 witness: every call the bound allows was begun, over both mutexes, and has returned
C36_Witness ==
    /\ lockCalls = MaxLockCalls
    /\ \A g \in Goroutines : prog[g] = NoCall
    /\ \A m \in Mutexes : mu[m] = [w |-> "", r |-> {}]

====
